---- MODULE Spec2Model ----
(***************************************************************************)
(* A model of the CSV analyzer / translator:                               *)
(*   - TextTranslator.translate_text and translate_dataframe               *)
(*     (src/translator.py), run as a step machine over one call;           *)
(*   - CSVAnalyzer._detect_column_type, _contains_dates, _analyze_column,  *)
(*     analyze_dataframe and generate_report (src/utils/csv_analyzer.py).  *)
(* Text is kept as TLA+ strings; a cell is a tagged record so that absent  *)
(* cells, strings and floats can sit in one column.                        *)
(***************************************************************************)
EXTENDS Integers, Sequences, FiniteSets, TLC

(***************************************************************************)
(* Bounds of the model.                                                    *)
(***************************************************************************)
\* rows of a table handed to translate_dataframe
MaxRows == 2
\* rows of the short tables handed to analyze_dataframe
MaxShortRows == 2
\* non-null values a long column holds past the date-sample limit
MaxBeyond == 2

(***************************************************************************)
(* Program constants.                                                      *)
(***************************************************************************)
\* translator.py:40  len(text_str) < 3
MinTranslateLen == 3
\* translator.py:114  processed_cells % 5
ProgressEvery == 5
\* csv_analyzer.py:94  min(100, len(series))
SampleCap == 100
\* csv_analyzer.py:107  n: int = 5
SampleValuesN == 5
\* translator.py:57
Marker == "[Translation unavailable]"

(***************************************************************************)
(* Cells and Python text helpers.                                          *)
(***************************************************************************)
\* an absent cell (NaN, what read_csv leaves for an empty field)
NaN == [k |-> "none", s |-> "", n |-> 0]
\* a str cell
Str(x) == [k |-> "str", s |-> x, n |-> 0]
\* the float cell x.0
Float(x) == [k |-> "float", s |-> "", n |-> x]
\* a Timestamp cell of a datetime64 column, day number x
Stamp(x) == [k |-> "ts", s |-> "", n |-> x]

\* pd.isna(value) / Series.notna()
isna(v) == v.k = "none"

\* str(value)
PyStr(v) ==
  CASE v.k = "str" -> v.s
    [] v.k = "float" -> ToString(v.n) \o ".0"
    [] v.k = "ts" -> "2021-01-0" \o ToString(v.n) \o " 00:00:00"
    [] OTHER -> "nan"

\* `not value`: the empty string and a zero number are falsy, NaN is truthy
PyNot(v) == (v.k = "str" /\ v.s = "") \/ (v.k = "float" /\ v.n = 0)

CharAt(s, i) == SubSeq(s, i, i)

IsSpace(c) == c \in {" ", "\t", "\n"}

RECURSIVE lstrip(_)
lstrip(s) ==
  IF Len(s) > 0 /\ IsSpace(CharAt(s, 1)) THEN lstrip(SubSeq(s, 2, Len(s))) ELSE s

RECURSIVE rstrip(_)
rstrip(s) ==
  IF Len(s) > 0 /\ IsSpace(CharAt(s, Len(s))) THEN rstrip(SubSeq(s, 1, Len(s) - 1)) ELSE s

\* str.strip()
strip(s) == rstrip(lstrip(s))

\* `sub in s`
Contains(s, sub) ==
  \E i \in 1..(Len(s) - Len(sub) + 1) : SubSeq(s, i, i + Len(sub) - 1) = sub

UpperChars == "ABCDEFGHIJKLMNOPQRSTUVWXYZ"
LowerChars == "abcdefghijklmnopqrstuvwxyz"

LowerChar(c) ==
  IF \E i \in 1..Len(UpperChars) : CharAt(UpperChars, i) = c
  THEN CharAt(LowerChars, CHOOSE i \in 1..Len(UpperChars) : CharAt(UpperChars, i) = c)
  ELSE c

RECURSIVE lower(_)
\* str.lower()
lower(s) == IF s = "" THEN "" ELSE LowerChar(CharAt(s, 1)) \o lower(SubSeq(s, 2, Len(s)))

\* the non-null values of a column, in order (Series.dropna())
dropna(cells) == SelectSeq(cells, LAMBDA v : ~isna(v))

Min(a, b) == IF a < b THEN a ELSE b

(***************************************************************************)
(* Tables.  A table is a list of distinct column names and, per name, the  *)
(* cells of the column; every column has the same number of rows.          *)
(***************************************************************************)
Table(names, data, dtypes) == [cols |-> names, data |-> data, dtypes |-> dtypes]

\* the same storage type for every column
AllOf(names, dtype) == [x \in names |-> dtype]

HasColumn(t, name) == \E i \in 1..Len(t.cols) : t.cols[i] = name

NRows(t) == IF t.cols = <<>> THEN 0 ELSE Len(t.data[t.cols[1]])

\* t[name] = cells, appended as the last column when the name is new
SetColumn(t, name, cells, dtype) ==
  [cols |-> IF HasColumn(t, name) THEN t.cols ELSE Append(t.cols, name),
   data |-> [c \in DOMAIN t.data \cup {name} |-> IF c = name THEN cells ELSE t.data[c]],
   dtypes |-> [c \in DOMAIN t.data \cup {name} |-> IF c = name THEN dtype ELSE t.dtypes[c]]]

\* the row numbers of the non-null cells of a column, ascending (non_null_mask)
RECURSIVE NonNullRows(_, _)
NonNullRows(cells, from) ==
  IF from > Len(cells) THEN <<>>
  ELSE IF isna(cells[from]) THEN NonNullRows(cells, from + 1)
  ELSE <<from>> \o NonNullRows(cells, from + 1)

\* the values written from the first row down, whatever the mask
AssignNonNull_FromTop(cells, values) ==
  [r \in 1..Len(cells) |-> IF r <= Len(values) THEN values[r] ELSE cells[r]]

\* df.loc[non_null_mask, column] = values
AssignNonNull(cells, values) ==
  LET rows == NonNullRows(cells, 1) IN
  [r \in 1..Len(cells) |->
     IF isna(cells[r]) THEN cells[r]
     ELSE values[CHOOSE j \in 1..Len(rows) : rows[j] = r]]

(***************************************************************************)
(* TextTranslator                                                          *)
(***************************************************************************)
\* what the external service may do with one call
Outcomes == {"ok", "raise", "notext"}

\* the text the external service answers with
ServiceText(text_str, target_language) == target_language \o ":" \o text_str

\* __init__: the translator object exists only when the library imported and
\* both the construction and the test call went through
TextTranslator_init(lib_available, init_ok) ==
  [GOOGLE_TRANSLATE_AVAILABLE |-> lib_available,
   translator |-> lib_available /\ init_ok]

\* a value handed back without a call
Passed(text) == [ret |-> text, sent |-> FALSE, warned |-> FALSE, raised |-> FALSE]

\* a value handed back after the external call
Called(text, warned) == [ret |-> text, sent |-> TRUE, warned |-> warned, raised |-> FALSE]

\* translate_text with line 40 off by one: a text of length 3 is not sent
translate_text_ShortIncludesThree(self, text, target_language, outcome) ==
  LET text_str == strip(PyStr(text)) IN
  IF PyNot(text) \/ isna(text) THEN Passed(text)
  ELSE IF text_str = "" THEN Passed(text)
  ELSE IF Len(text_str) <= MinTranslateLen THEN Passed(text)
  ELSE IF self.translator /\ self.GOOGLE_TRANSLATE_AVAILABLE
       THEN CASE outcome = "raise" -> Called(Str(text_str), TRUE)
              [] outcome = "notext" -> Called(Str(text_str), FALSE)
              [] OTHER -> Called(Str(ServiceText(text_str, target_language)), FALSE)
       ELSE Passed(Str(Marker \o " " \o text_str))

\* translate_text without the except clause of lines 59-61: the exception of
\* the external call leaves the function
translate_text_NoExcept(self, text, target_language, outcome) ==
  LET text_str == strip(PyStr(text)) IN
  IF PyNot(text) \/ isna(text) THEN Passed(text)
  ELSE IF text_str = "" THEN Passed(text)
  ELSE IF Len(text_str) < MinTranslateLen THEN Passed(text)
  ELSE IF self.translator /\ self.GOOGLE_TRANSLATE_AVAILABLE
       THEN CASE outcome = "raise" ->
                   [ret |-> text, sent |-> TRUE, warned |-> FALSE, raised |-> TRUE]
              [] outcome = "notext" -> Called(Str(text_str), FALSE)
              [] OTHER -> Called(Str(ServiceText(text_str, target_language)), FALSE)
       ELSE Passed(Str(Marker \o " " \o text_str))

\* translate_text: the value returned, whether the external service was
\* called, whether a warning was shown, and whether an exception left the
\* function (never: lines 59-61 catch what the call raises)
translate_text(self, text, target_language, outcome) ==
  LET text_str == strip(PyStr(text)) IN
  IF PyNot(text) \/ isna(text) THEN Passed(text)
  ELSE IF text_str = "" THEN Passed(text)
  ELSE IF Len(text_str) < MinTranslateLen THEN Passed(text)
  ELSE IF self.translator /\ self.GOOGLE_TRANSLATE_AVAILABLE
       THEN CASE outcome = "raise" -> Called(Str(text_str), TRUE)
              [] outcome = "notext" -> Called(Str(text_str), FALSE)
              [] OTHER -> Called(Str(ServiceText(text_str, target_language)), FALSE)
       ELSE Passed(Str(Marker \o " " \o text_str))

\* the substrings that make a column label count as a question
LabelKeywords ==
  {"texto", "text", "translated", "mango", "estás", "estas", "algo", "favor",
   "por favor", "como", "cómo"}

\* the test of translate_dataframe with the keywords looked up in the label as
\* it is written, not in its lower-case form
LabelLooksLikeQuestion_CaseSensitive(column) ==
  \/ Contains(column, "?")
  \/ Contains(column, "¿")
  \/ \E kw \in LabelKeywords : Contains(column, kw)

\* the test of translate_dataframe on a column label
LabelLooksLikeQuestion(column) ==
  \/ Contains(column, "?")
  \/ Contains(column, "¿")
  \/ \E kw \in LabelKeywords : Contains(lower(column), kw)

\* f"{column}_original"
OriginalName(column) == column \o "_original"

\* the total of line 71 without its dropna(): absent cells counted too
RECURSIVE TotalCells_AllRows(_, _)
TotalCells_AllRows(t, cols) ==
  IF cols = <<>> THEN 0
  ELSE (IF HasColumn(t, Head(cols)) THEN Len(t.data[Head(cols)]) ELSE 0)
       + TotalCells_AllRows(t, Tail(cols))

\* sum(len(df[col].dropna()) for col in columns if col in df.columns)
RECURSIVE TotalCells(_, _)
TotalCells(t, cols) ==
  IF cols = <<>> THEN 0
  ELSE (IF HasColumn(t, Head(cols)) THEN Len(dropna(t.data[Head(cols)])) ELSE 0)
       + TotalCells(t, Tail(cols))

\* min(processed_cells / total_cells, 1.0), kept as a fraction
ProgressFraction(processed, total) ==
  IF processed > total THEN <<1, 1>> ELSE <<processed, total>>

\* lines 114-116: every fifth cell the fraction is computed and shown; the
\* division raises ZeroDivisionError on a total of 0
UpdateProgress(processed, total, bar) ==
  IF processed % ProgressEvery # 0 THEN [raised |-> FALSE, bar |-> bar]
  ELSE IF total = 0 THEN [raised |-> TRUE, bar |-> bar]
  ELSE [raised |-> FALSE, bar |-> ProgressFraction(processed, total)]

(***************************************************************************)
(* CSVAnalyzer: column classification.                                     *)
(***************************************************************************)
Digits == "0123456789"

IsDigit(c) == c \in {"0", "1", "2", "3", "4", "5", "6", "7", "8", "9"}

\* one element of a pattern: a character class repeated lo..hi times
Atom(class, lo, hi) == [class |-> class, lo |-> lo, hi |-> hi]

\* \d{lo,hi}
D(lo, hi) == Atom("d", lo, hi)

\* [-/]
Sep == Atom("sep", 1, 1)

InClass(c, class) == IF class = "d" THEN IsDigit(c) ELSE c \in {"-", "/"}

\* self.date_patterns
date_patterns ==
  << <<D(4, 4), Sep, D(2, 2), Sep, D(2, 2)>>,
     <<D(2, 2), Sep, D(2, 2), Sep, D(4, 4)>>,
     <<D(1, 2), Sep, D(1, 2), Sep, D(4, 4)>> >>

\* the pattern from its element idx on matches s at position pos
RECURSIVE MatchFrom(_, _, _, _)
MatchFrom(s, pos, pattern, idx) ==
  IF idx > Len(pattern) THEN TRUE
  ELSE \E cnt \in pattern[idx].lo..pattern[idx].hi :
         /\ pos + cnt - 1 <= Len(s)
         /\ \A q \in pos..(pos + cnt - 1) : InClass(CharAt(s, q), pattern[idx].class)
         /\ MatchFrom(s, pos + cnt, pattern, idx + 1)

\* re.search(pattern, value) finds a match
re_search(pattern, value) == \E pos \in 1..Len(value) : MatchFrom(value, pos, pattern, 1)

\* lines 98-102: the value matches one of the date patterns
MatchesDatePattern(value) ==
  \E p \in 1..Len(date_patterns) : re_search(date_patterns[p], value)

\* series.head(n)
head(cells, n) == SubSeq(cells, 1, Min(n, Len(cells)))

\* lines 97-102: the number of values of the sample that match a date pattern
CountDateMatches(cells) ==
  Cardinality({q \in 1..Len(cells) : MatchesDatePattern(PyStr(cells[q]))})

\* _contains_dates with >= at line 105
contains_dates_AtLeastHalf(series) ==
  LET sample_size == Min(SampleCap, Len(series))
      date_matches == CountDateMatches(head(series, sample_size))
  IN IF sample_size = 0
     THEN [raised |-> TRUE, value |-> FALSE]
     ELSE [raised |-> FALSE, value |-> 2 * date_matches >= sample_size]

\* _contains_dates counting over the whole series instead of the sample
contains_dates_WholeSeries(series) ==
  LET sample_size == Len(series)
      date_matches == CountDateMatches(series)
  IN IF sample_size = 0
     THEN [raised |-> TRUE, value |-> FALSE]
     ELSE [raised |-> FALSE, value |-> 2 * date_matches > sample_size]

\* _contains_dates on the non-null values of a column.  The quotient
\* date_matches / sample_size of two integers up to 100 is above 0.5 exactly
\* when 2 * date_matches > sample_size; a sample of size 0 raises
\* ZeroDivisionError.
contains_dates(series) ==
  LET sample_size == Min(SampleCap, Len(series))
      date_matches == CountDateMatches(head(series, sample_size))
  IN IF sample_size = 0
     THEN [raised |-> TRUE, value |-> FALSE]
     ELSE [raised |-> FALSE, value |-> 2 * date_matches > sample_size]

\* the text is an optional sign and one or more digits.  (pd.to_numeric takes
\* more: decimal points, exponents, inf; no text of this model has them.)
IsNumberText(s) ==
  LET t == strip(s)
      body == IF Len(t) > 0 /\ CharAt(t, 1) \in {"+", "-"} THEN SubSeq(t, 2, Len(t)) ELSE t
  IN Len(body) > 0 /\ \A q \in 1..Len(body) : IsDigit(CharAt(body, q))

\* pd.to_numeric takes the value
ParsesAsNumber(v) ==
  CASE v.k = "float" -> TRUE
    [] v.k = "str" -> IsNumberText(v.s)
    [] OTHER -> FALSE

\* pd.to_numeric(series, errors='raise') goes through
to_numeric_ok(series) == \A q \in 1..Len(series) : ParsesAsNumber(series[q])

\* pd.api.types.is_numeric_dtype
is_numeric_dtype(dtype) == dtype \in {"int64", "float64"}

\* pd.api.types.is_datetime64_any_dtype
is_datetime64_any_dtype(dtype) == dtype = "datetime64[ns]"

\* the answer of _detect_column_type and the probes it ran on the way
Detected(type, probes) == [type |-> type, probes |-> probes]

\* _detect_column_type with the dtype test ahead of the emptiness test
detect_column_type_DtypeFirst(dtype, cells) ==
  LET non_null_series == dropna(cells) IN
  IF is_numeric_dtype(dtype) THEN Detected("numeric", <<>>)
  ELSE IF Len(non_null_series) = 0 THEN Detected("empty", <<>>)
  ELSE IF is_datetime64_any_dtype(dtype) THEN Detected("datetime", <<>>)
  ELSE IF contains_dates(non_null_series).value
       THEN Detected("datetime", <<"_contains_dates">>)
  ELSE IF to_numeric_ok(non_null_series)
       THEN Detected("numeric", <<"_contains_dates", "to_numeric">>)
  ELSE Detected("text", <<"_contains_dates", "to_numeric">>)

\* _detect_column_type without the emptiness test of lines 68-69
detect_column_type_NoEmptyTest(dtype, cells) ==
  LET non_null_series == dropna(cells) IN
  IF is_numeric_dtype(dtype) THEN Detected("numeric", <<>>)
  ELSE IF is_datetime64_any_dtype(dtype) THEN Detected("datetime", <<>>)
  ELSE IF contains_dates(non_null_series).raised
       THEN Detected("ZeroDivisionError", <<"_contains_dates">>)
  ELSE IF contains_dates(non_null_series).value
       THEN Detected("datetime", <<"_contains_dates">>)
  ELSE IF to_numeric_ok(non_null_series)
       THEN Detected("numeric", <<"_contains_dates", "to_numeric">>)
  ELSE Detected("text", <<"_contains_dates", "to_numeric">>)

\* _detect_column_type with the emptiness test after the date-pattern test
detect_column_type_EmptyTestAfterDates(dtype, cells) ==
  LET non_null_series == dropna(cells)
      dates == contains_dates(non_null_series)
  IN
  IF is_numeric_dtype(dtype) /\ Len(non_null_series) > 0 THEN Detected("numeric", <<>>)
  ELSE IF is_datetime64_any_dtype(dtype) /\ Len(non_null_series) > 0
       THEN Detected("datetime", <<>>)
  ELSE IF dates.raised THEN Detected("ZeroDivisionError", <<"_contains_dates">>)
  ELSE IF dates.value THEN Detected("datetime", <<"_contains_dates">>)
  ELSE IF Len(non_null_series) = 0 THEN Detected("empty", <<"_contains_dates">>)
  ELSE IF to_numeric_ok(non_null_series)
       THEN Detected("numeric", <<"_contains_dates", "to_numeric">>)
  ELSE Detected("text", <<"_contains_dates", "to_numeric">>)

\* _detect_column_type parsing only the date sample as numbers
detect_column_type_NumericOnSample(dtype, cells) ==
  LET non_null_series == dropna(cells) IN
  IF Len(non_null_series) = 0 THEN Detected("empty", <<>>)
  ELSE IF is_numeric_dtype(dtype) THEN Detected("numeric", <<>>)
  ELSE IF is_datetime64_any_dtype(dtype) THEN Detected("datetime", <<>>)
  ELSE IF contains_dates(non_null_series).value
       THEN Detected("datetime", <<"_contains_dates">>)
  ELSE IF to_numeric_ok(head(non_null_series, SampleCap))
       THEN Detected("numeric", <<"_contains_dates", "to_numeric">>)
  ELSE Detected("text", <<"_contains_dates", "to_numeric">>)

\* _detect_column_type of a column of the given storage type
detect_column_type(dtype, cells) ==
  LET non_null_series == dropna(cells)
      dates == contains_dates(non_null_series)
  IN
  IF Len(non_null_series) = 0 THEN Detected("empty", <<>>)
  ELSE IF is_numeric_dtype(dtype) THEN Detected("numeric", <<>>)
  ELSE IF is_datetime64_any_dtype(dtype) THEN Detected("datetime", <<>>)
  ELSE IF dates.raised THEN Detected("ZeroDivisionError", <<"_contains_dates">>)
  ELSE IF dates.value THEN Detected("datetime", <<"_contains_dates">>)
  ELSE IF to_numeric_ok(non_null_series)
       THEN Detected("numeric", <<"_contains_dates", "to_numeric">>)
  ELSE Detected("text", <<"_contains_dates", "to_numeric">>)

(***************************************************************************)
(* CSVAnalyzer: column profiles.                                           *)
(***************************************************************************)
\* _get_sample_values: the first n non-null values
get_sample_values(cells) == head(dropna(cells), SampleValuesN)

\* series.count()
count(cells) == Len(dropna(cells))

\* series.isnull().sum()
null_count(cells) == Len(cells) - Len(dropna(cells))

\* series.nunique()
nunique(cells) == Cardinality({cells[q] : q \in {x \in 1..Len(cells) : ~isna(cells[x])}})

\* int of a text of digits
RECURSIVE DigitsValue(_)
DigitsValue(s) ==
  IF s = "" THEN 0
  ELSE 10 * DigitsValue(SubSeq(s, 1, Len(s) - 1))
       + (CHOOSE d \in 0..9 : CharAt(Digits, d + 1) = CharAt(s, Len(s)))

\* the number pd.to_numeric makes of a value it takes
NumberOf(v) ==
  IF v.k = "float" THEN v.n
  ELSE LET t == strip(v.s) IN
       IF CharAt(t, 1) = "-" THEN 0 - DigitsValue(SubSeq(t, 2, Len(t)))
       ELSE IF CharAt(t, 1) = "+" THEN DigitsValue(SubSeq(t, 2, Len(t)))
       ELSE DigitsValue(t)

\* pd.to_numeric(series, errors='coerce'), absent values left out
coerced(cells) ==
  LET kept == SelectSeq(cells, LAMBDA v : ParsesAsNumber(v)) IN
  [q \in 1..Len(kept) |-> NumberOf(kept[q])]

RECURSIVE SumUpTo(_, _)
SumUpTo(xs, n) == IF n = 0 THEN 0 ELSE xs[n] + SumUpTo(xs, n - 1)

SeqSum(xs) == SumUpTo(xs, Len(xs))

SeqMin(xs) == CHOOSE x \in {xs[q] : q \in 1..Len(xs)} : \A q \in 1..Len(xs) : x <= xs[q]

SeqMax(xs) == CHOOSE x \in {xs[q] : q \in 1..Len(xs)} : \A q \in 1..Len(xs) : x >= xs[q]

\* _analyze_numeric_column: min, max, and the mean as the pair sum, count
\* (pandas skips the absent values; of no values at all, min, max and mean
\* are NaN).  The median and the standard deviation are floats no modelled
\* operation reads; they are left out.
analyze_numeric_column(cells) ==
  LET numeric_series == coerced(cells) IN
  [min_value |-> IF numeric_series = <<>> THEN NaN ELSE Float(SeqMin(numeric_series)),
   max_value |-> IF numeric_series = <<>> THEN NaN ELSE Float(SeqMax(numeric_series)),
   mean_value |-> <<SeqSum(numeric_series), Len(numeric_series)>>]

\* series.astype(str).str.len(): every cell is stringified, an absent one to "nan"
lengths(cells) == [q \in 1..Len(cells) |-> Len(PyStr(cells[q]))]

RECURSIVE join(_, _)
\* sep.join(texts)
join(sep, texts) ==
  IF texts = <<>> THEN ""
  ELSE IF Len(texts) = 1 THEN texts[1]
  ELSE texts[1] \o sep \o join(sep, Tail(texts))

\* the character classes of _detect_languages, each with the upper-case forms
\* re.IGNORECASE adds (those within Latin-1).  The ranges of lines 177-183
\* (Cyrillic, CJK, kana, Hangul) are not listed: no text of this model has
\* such characters.
LanguageClasses ==
  << <<"Spanish", "áéíóúñüÁÉÍÓÚÑÜ">>,
     <<"French", "àâäçéèêëïîôùûüÿÀÂÄÇÉÈÊËÏÎÔÙÛÜ">>,
     <<"German", "äöüßÄÖÜ">>,
     <<"Italian", "àèéìíîòóùÀÈÉÌÍÎÒÓÙ">>,
     <<"Portuguese", "ãâáàçéêíôõúÃÂÁÀÇÉÊÍÔÕÚ">> >>

HasCharOf(text, class) == \E q \in 1..Len(text) : Contains(class, CharAt(text, q))

\* _detect_languages, as a set (the list made of it has no defined order)
detect_languages(texts) ==
  LET sample_text == join(" ", head(texts, 10))
      languages == {LanguageClasses[q][1] :
                      q \in {x \in 1..Len(LanguageClasses) :
                               HasCharOf(sample_text, LanguageClasses[x][2])}}
  IN IF languages # {} THEN languages ELSE {"English"}

\* the ASCII characters the texts of this model are written in
AsciiChars ==
  " !#$%&()*+,-./0123456789:;<=>?@ABCDEFGHIJKLMNOPQRSTUVWXYZ[]^_abcdefghijklmnopqrstuvwxyz{|}~"

\* str.isascii()
isascii(text) == \A q \in 1..Len(text) : Contains(AsciiChars, CharAt(text, q))

\* _analyze_text_column: the mean length as sum / count
analyze_text_column(cells) ==
  LET text_series == [q \in 1..Len(cells) |-> PyStr(cells[q])]
      lens == lengths(cells)
  IN [avg_length |-> <<SeqSum(lens), Len(lens)>>,
      min_length |-> SeqMin(lens),
      max_length |-> SeqMax(lens),
      potential_languages |-> detect_languages(text_series),
      contains_non_ascii |-> \E q \in 1..Len(text_series) : ~isascii(text_series[q])]

\* _analyze_datetime_column.  What pd.to_datetime reads out of a text is
\* outside this model, and no modelled operation reads the three date fields;
\* the entry only says that they were added.
analyze_datetime_column(cells) == [date_fields |-> TRUE]

\* _analyze_column
analyze_column(dtype, cells) ==
  LET type == detect_column_type(dtype, cells).type IN
  [type |-> type,
   non_null_count |-> count(cells),
   null_count |-> null_count(cells),
   unique_count |-> nunique(cells),
   sample_values |-> get_sample_values(cells),
   stats |-> CASE type = "numeric" -> analyze_numeric_column(cells)
               [] type = "text" -> analyze_text_column(cells)
               [] type = "datetime" -> analyze_datetime_column(cells)
               [] OTHER -> [none |-> TRUE]]

\* round(x * 10 / d) with ties to even, what f"{x / d:.1f}" prints for a
\* quotient the float holds exactly (d is a power of two)
RoundedTenths(x, d) ==
  LET q == (x * 10) \div d
      r == (x * 10) % d
  IN IF 2 * r > d \/ (2 * r = d /\ q % 2 = 1) THEN q + 1 ELSE q

\* f"{x / d:.1f}"
OneDecimal(x, d) ==
  LET t == RoundedTenths(x, d) IN ToString(t \div 10) \o "." \o ToString(t % 10)

Kilo == 1024

\* _get_memory_usage with both thresholds taken into the lower unit
get_memory_usage_InclusiveThresholds(memory_bytes) ==
  IF memory_bytes <= Kilo THEN ToString(memory_bytes) \o " bytes"
  ELSE IF memory_bytes <= Kilo * Kilo THEN OneDecimal(memory_bytes, Kilo) \o " KB"
  ELSE OneDecimal(memory_bytes, Kilo * Kilo) \o " MB"

\* _get_memory_usage of a table that takes memory_bytes bytes
get_memory_usage(memory_bytes) ==
  IF memory_bytes < Kilo THEN ToString(memory_bytes) \o " bytes"
  ELSE IF memory_bytes < Kilo * Kilo THEN OneDecimal(memory_bytes, Kilo) \o " KB"
  ELSE OneDecimal(memory_bytes, Kilo * Kilo) \o " MB"

\* df.isnull().sum().sum()
RECURSIVE total_missing_values(_, _)
total_missing_values(t, names) ==
  IF names = <<>> THEN 0
  ELSE null_count(t.data[Head(names)]) + total_missing_values(t, Tail(names))

(***************************************************************************)
(* CSVAnalyzer: the report.                                                *)
(***************************************************************************)
\* one line of the report; values holds a list printed in the line
Line(text) == [text |-> text, values |-> <<>>]

ListLine(text, values) == [text |-> text, values |-> values]

\* lines 213-214 and the like: one "  - name" line per column of a list
NameLines(names) == [q \in 1..Len(names) |-> Line("  - " \o names[q])]

\* lines 229-234: the detail block of one column
DetailBlock(col_name, col_info) ==
  << Line("\nColumn: " \o col_name),
     Line("  Type: " \o col_info.type),
     Line("  Non-null Count: " \o ToString(col_info.non_null_count)),
     Line("  Null Count: " \o ToString(col_info.null_count)),
     Line("  Unique Count: " \o ToString(col_info.unique_count)),
     ListLine("  Sample Values: ", col_info.sample_values) >>

\* lines 228-234: the detail blocks in the order of the given keys
RECURSIVE DetailBlocks(_, _)
DetailBlocks(keys, infos) ==
  IF keys = <<>> THEN <<>>
  ELSE DetailBlock(Head(keys), infos[Head(keys)]) \o DetailBlocks(Tail(keys), infos)

RECURSIVE Reversed(_)
Reversed(xs) == IF xs = <<>> THEN <<>> ELSE Append(Reversed(Tail(xs)), Head(xs))

\* the head of the report, lines 202-226
ReportHead(analysis) ==
  << Line("CSV DATA ANALYSIS REPORT"),
     Line("=============================="),
     Line("Total Rows: " \o ToString(analysis.total_rows)),
     Line("Total Columns: " \o ToString(analysis.total_columns)),
     Line("Memory Usage: " \o analysis.memory_usage),
     Line("Missing Values: " \o ToString(analysis.total_missing_values)),
     Line(""),
     Line("COLUMN BREAKDOWN:"),
     Line("--------------------"),
     Line("Text Columns: " \o ToString(Len(analysis.text_columns))) >>
  \o NameLines(analysis.text_columns)
  \o << Line("Numeric Columns: " \o ToString(Len(analysis.numeric_columns))) >>
  \o NameLines(analysis.numeric_columns)
  \o << Line("Date Columns: " \o ToString(Len(analysis.date_columns))) >>
  \o NameLines(analysis.date_columns)
  \o << Line(""),
        Line("DETAILED COLUMN ANALYSIS:"),
        Line("------------------------------") >>

\* generate_report walking the columns in reverse insertion order
generate_report_ReversedColumns(analysis) ==
  ReportHead(analysis) \o DetailBlocks(Reversed(analysis.keys), analysis.columns)

\* generate_report: the lines that "\n".join puts together.  analysis.keys is
\* the insertion order of the dict analysis['columns'].
generate_report(analysis) ==
  ReportHead(analysis) \o DetailBlocks(analysis.keys, analysis.columns)

(***************************************************************************)
(* State of one translate_dataframe call.                                  *)
(***************************************************************************)
VARIABLES
  self,                 \* the TextTranslator: GOOGLE_TRANSLATE_AVAILABLE, translator
  df,                   \* the table passed in
  columns,              \* the selected column names
  target_language,
  pc,                   \* "call", "columns", "cells", "done"; "raised" when an
                        \* exception left the call; "off" when no call runs
  translated_df,        \* the copy being filled
  ci,                   \* position of the column loop in columns
  vi,                   \* position of the cell loop in non_null_values
  translated_values,
  processed_cells,
  total_cells,
  progress_bar,         \* the last fraction handed to the progress bar
  column_translations,  \* label -> translated label, of this call
  session_translations, \* st.session_state.column_translations
  result,               \* the table returned
  calls,                \* the external translate calls made, in order
  handled,              \* per processed cell: column position, row, outcome of its call
  warnings              \* number of st.warning messages shown

tvars == <<self, df, columns, target_language, pc, translated_df, ci, vi,
           translated_values, processed_cells, total_cells, progress_bar,
           column_translations, session_translations, result, calls, handled,
           warnings>>

(***************************************************************************)
(* State of the CSVAnalyzer and of the caller that holds its results.      *)
(***************************************************************************)
VARIABLES
  a_df,          \* the table analyze_dataframe works on
  memory_bytes,  \* df.memory_usage(deep=True).sum() of that table
  a_pc,          \* "start", "columns", "ready"; "off" when no analysis runs
  a_ci,          \* position of the column loop in df.columns
  analysis,      \* the dict analyze_dataframe fills
  probes,        \* per analysed column, the probes _detect_column_type ran
  profile,       \* the result the caller holds (analysis_results)
  reports,       \* the reports generated so far, each with the profile it is
                 \* of and the number of analyses returned by then
  runs           \* analyze_dataframe calls returned

avars == <<a_df, memory_bytes, a_pc, a_ci, analysis, probes, profile, reports, runs>>

(***************************************************************************)
(* State of a DataVisualizer caller: the table and the last chart built.   *)
(***************************************************************************)
VARIABLES
  v_df,          \* the table the chart builders are given
  v_call,        \* the last builder called, with its arguments
  v_fig          \* the figure it returned

zvars == <<v_df, v_call, v_fig>>

(***************************************************************************)
(* State of the page (app.py main): the session state that outlives a run, *)
(* the widgets, and the position and locals of the run under way.          *)
(***************************************************************************)
VARIABLES
  data,              \* st.session_state.data
  analysis_results,  \* st.session_state.analysis_results
  translated_data,   \* st.session_state.translated_data, with the table it was made from
  uploaded_file,     \* what the file_uploader holds
  clicked,           \* the Translate button was pressed for this run
  run_pc,            \* "idle", "load", "analysis", "translation", "translating",
                     \* "download"; "off" when no page is served
  text_columns,      \* the columns offered for translation by the last run that got there
  report,            \* the report offered for download by the last run that got there
  errors,            \* the st.error messages of the run under way
  loaded_with,       \* the encoding whose table the run under way stored, if any
  page_runs,         \* runs started
  cards              \* the feedback cards the run under way has rendered

pvars == <<data, analysis_results, translated_data, uploaded_file, clicked, run_pc,
           text_columns, report, errors, loaded_with, page_runs, cards>>

vars == <<tvars, avars, zvars, pvars>>

\* what a step of one component leaves alone
outside_translator == <<avars, zvars, pvars>>
outside_analyzer == <<tvars, zvars, pvars>>
outside_visualizer == <<tvars, avars, pvars>>

\* a dict with no entries
EmptyDict == [x \in {} |-> ""]

\* d[key] = value
DictSet(d, key, value) == [x \in DOMAIN d \cup {key} |-> IF x = key THEN value ELSE d[x]]

\* d.update(e)
DictUpdate(d, e) == [x \in DOMAIN d \cup DOMAIN e |-> IF x \in DOMAIN e THEN e[x] ELSE d[x]]

\* no table
NoTable == Table(<<>>, EmptyDict, EmptyDict)

\* session_state without the column_translations attribute
NoAttr == [has |-> FALSE, map |-> EmptyDict]

\* lines 18-27: the dict before the column loop
NewAnalysis(t, bytes) ==
  [total_rows |-> NRows(t),
   total_columns |-> Len(t.cols),
   memory_usage |-> get_memory_usage(bytes),
   columns |-> EmptyDict,
   keys |-> <<>>,
   text_columns |-> <<>>,
   numeric_columns |-> <<>>,
   date_columns |-> <<>>,
   total_missing_values |-> total_missing_values(t, t.cols)]

NoAnalysis == NewAnalysis(NoTable, 0)

NoProfile == [set |-> FALSE, value |-> NoAnalysis]

\* no translate_dataframe call is running
TIdle ==
  /\ self = TextTranslator_init(FALSE, FALSE)
  /\ df = NoTable
  /\ columns = <<>>
  /\ target_language = "es"
  /\ pc = "off"
  /\ translated_df = NoTable
  /\ ci = 0
  /\ vi = 0
  /\ translated_values = <<>>
  /\ processed_cells = 0
  /\ total_cells = 0
  /\ progress_bar = <<0, 1>>
  /\ column_translations = EmptyDict
  /\ session_translations = NoAttr
  /\ result = NoTable
  /\ calls = <<>>
  /\ handled = <<>>
  /\ warnings = 0

\* no analysis is running
AIdle ==
  /\ a_df = NoTable
  /\ memory_bytes = 0
  /\ a_pc = "off"
  /\ a_ci = 0
  /\ analysis = NoAnalysis
  /\ probes = <<>>
  /\ profile = NoProfile
  /\ reports = <<>>
  /\ runs = 0

\* a go.Figure, by what the builder put into it: a chart of the plotted
\* values, a placeholder or an error figure with the annotation text, or
\* "raised" when an exception left the builder instead of a figure
Figure(kind, message, title, plotted) ==
  [kind |-> kind, message |-> message, title |-> title, plotted |-> plotted]

NoFigure == Figure("", "", "", <<>>)

NoCall == [builder |-> "", args |-> <<>>, plot |-> "ok"]

\* no chart is being built
VIdle ==
  /\ v_df = NoTable
  /\ v_call = NoCall
  /\ v_fig = NoFigure

\* what one attempt to read the uploaded file ends in: a table ("ok"), a
\* UnicodeDecodeError, or another exception ("error")
ReadResult(kind, table) == [kind |-> kind, table |-> table]

\* an uploaded file, by what reading it as UTF-8, latin-1 / iso-8859-1 (one
\* codec under two names) and cp1252 ends in
File(utf8, latin1, cp1252) ==
  [present |-> TRUE, utf8 |-> utf8, latin1 |-> latin1, cp1252 |-> cp1252]

\* uploaded_file is None
NoFile ==
  [present |-> FALSE, utf8 |-> ReadResult("error", NoTable),
   latin1 |-> ReadResult("error", NoTable), cp1252 |-> ReadResult("error", NoTable)]

\* st.session_state.data = None
NoData == [set |-> FALSE, value |-> NoTable]

\* st.session_state.translated_data = None
NoTranslated == [set |-> FALSE, from |-> NoTable, value |-> NoTable]

NoReport == [set |-> FALSE, of |-> NoTable, text |-> <<>>]

NoOffer == [set |-> FALSE, of |-> NoTable, names |-> <<>>]

\* no page is served
PIdle ==
  /\ data = NoData
  /\ analysis_results = NoProfile
  /\ translated_data = NoTranslated
  /\ uploaded_file = NoFile
  /\ clicked = FALSE
  /\ run_pc = "off"
  /\ text_columns = NoOffer
  /\ report = NoReport
  /\ errors = <<>>
  /\ loaded_with = ""
  /\ page_runs = 0
  /\ cards = <<>>

(***************************************************************************)
(* Inputs of translate_dataframe.                                         *)
(***************************************************************************)
\* the cells a translated column is filled from
TextCells ==
  {NaN, Str(""), Str("  "), Str(" ab "), Str(" abc "), Float(0)}

\* the columns of n rows that already carry the name <col>_original: other
\* text than the column they are named after, with or without an absent cell
OtherColumns(n) ==
  {[r \in 1..n |-> Str("xyz")], [r \in 1..n |-> IF r = 1 THEN NaN ELSE Str("xyz")]}

QuestionLabel == "Texto?"

TranslatorTables ==
  UNION {
    {Table(<<"c">>, [x \in {"c"} |-> c], AllOf({"c"}, "object"))
       : c \in [1..n -> TextCells]}
    \cup
    {Table(<<"c", "c_original">>,
           [x \in {"c", "c_original"} |-> IF x = "c" THEN c ELSE o],
           AllOf({"c", "c_original"}, "object"))
       : c \in [1..n -> TextCells], o \in OtherColumns(n)}
    \cup
    {Table(<<QuestionLabel, "c">>,
           [x \in {QuestionLabel, "c"} |-> IF x = "c" THEN c ELSE [r \in 1..n |-> Str("uno dos")]],
           AllOf({QuestionLabel, "c"}, "object"))
       : c \in [1..n -> TextCells]}
    : n \in 0..MaxRows }

Selections ==
  {<<>>, <<"c">>, <<"c", "c_original">>, <<"c_original", "c">>, <<"missing", "c">>,
   <<QuestionLabel, "c">>, <<"c", "c">>}

\* column labels: with a question mark, with a keyword in upper, mixed and
\* lower case, and with none of them.  The labels are ASCII text: lower() of
\* this model turns A-Z only, and the states TLC stores keep ASCII text only.
Labels == {"c?", "MANGO", "Algo", "por favor", "c"}

LabelColumns == <<"c?", "MANGO", "Algo", "por favor", "c">>

\* tables of the labelled columns, every cell a text too short to be sent
LabelTables ==
  {Table(LabelColumns,
         [x \in Labels |-> [r \in 1..n |-> Str(" ab ")]],
         AllOf(Labels, "object")) : n \in 0..1}

\* one label, labels that are no columns of the table ("texto" is a keyword),
\* and several labels
LabelSelections ==
  {<<l>> : l \in Labels \cup {"texto", "missing"}}
  \cup {<<"MANGO", "c", "c?">>, <<"texto", "Algo">>, <<"por favor", "c", "c">>}

\* rows of the tall tables: enough for a progress report every ProgressEvery
\* cells
TallRows == 6

\* tables of two columns c and d of n rows, the cells of c absent up to row
\* k, every other cell a text too short to be sent
TallTables ==
  UNION {
    {Table(<<"c", "d">>,
           [x \in {"c", "d"} |->
              [r \in 1..n |-> IF x = "c" /\ r <= k THEN NaN ELSE Str(" ab ")]],
           AllOf({"c", "d"}, "object"))
       : k \in {0, 1, n}}
    : n \in (TallRows - 1)..TallRows }

TallSelections ==
  {<<"c">>, <<"c", "d">>, <<"c", "missing", "d">>, <<"d", "d">>, <<"missing">>}

\* the calls of translate_dataframe: table and selection
TranslatorInputs ==
  (TranslatorTables \X Selections)
  \cup (LabelTables \X LabelSelections)
  \cup (TallTables \X TallSelections)

Translators ==
  {TextTranslator_init(lib, ok) : lib \in BOOLEAN, ok \in BOOLEAN}

TInit ==
  /\ self \in Translators
  /\ \E input \in TranslatorInputs :
       /\ df = input[1]
       /\ columns = input[2]
  /\ target_language = "es"
  /\ pc = "call"
  /\ translated_df = NoTable
  /\ ci = 0
  /\ vi = 0
  /\ translated_values = <<>>
  /\ processed_cells = 0
  /\ total_cells = 0
  /\ progress_bar = <<0, 1>>
  /\ column_translations = EmptyDict
  /\ session_translations \in {NoAttr, [has |-> TRUE, map |-> EmptyDict]}
  /\ result = NoTable
  /\ calls = <<>>
  /\ handled = <<>>
  /\ warnings = 0
  /\ AIdle
  /\ VIdle
  /\ PIdle

(***************************************************************************)
(* translate_dataframe, one action per step of its loops.                  *)
(***************************************************************************)
\* lines 65-78: the early return on an empty selection, else the set-up
Call ==
  /\ pc = "call"
  /\ IF columns = <<>>
     THEN /\ result' = df
          /\ pc' = "done"
          /\ UNCHANGED <<translated_df, ci, total_cells, progress_bar>>
     ELSE /\ translated_df' = df
          /\ total_cells' = TotalCells(df, columns)
          /\ progress_bar' = <<0, 1>>
          /\ ci' = 1
          /\ pc' = "columns"
          /\ UNCHANGED result
  /\ UNCHANGED <<self, df, columns, target_language, vi, translated_values,
                 processed_cells, column_translations, session_translations,
                 calls, handled, warnings>>
  /\ UNCHANGED outside_translator

\* lines 80-103: the head of the column loop, up to the cell loop
NextColumn ==
  /\ pc = "columns"
  /\ ci <= Len(columns)
  /\ LET column == columns[ci] IN
     IF ~HasColumn(df, column)
     THEN /\ warnings' = warnings + 1
          /\ ci' = ci + 1
          /\ UNCHANGED <<pc, vi, translated_values, column_translations, calls>>
     ELSE IF LabelLooksLikeQuestion(column)
     THEN \E outcome \in Outcomes :
            LET r == translate_text(self, Str(column), target_language, outcome) IN
            IF r.raised
            THEN /\ pc' = "raised"
                 /\ UNCHANGED <<ci, vi, translated_values, column_translations, calls,
                                warnings>>
            ELSE /\ column_translations' = DictSet(column_translations, column, PyStr(r.ret))
                 /\ calls' = IF r.sent
                             THEN Append(calls, [kind |-> "label", column |-> column,
                                                 row |-> 0, text |-> strip(column),
                                                 outcome |-> outcome])
                             ELSE calls
                 /\ warnings' = IF r.warned THEN warnings + 1 ELSE warnings
                 /\ translated_values' = <<>>
                 /\ vi' = 1
                 /\ pc' = "cells"
                 /\ UNCHANGED ci
     ELSE /\ translated_values' = <<>>
          /\ vi' = 1
          /\ pc' = "cells"
          /\ UNCHANGED <<ci, column_translations, calls, warnings>>
  /\ UNCHANGED <<self, df, columns, target_language, translated_df, processed_cells,
                 total_cells, progress_bar, session_translations, result, handled>>
  /\ UNCHANGED outside_translator

\* lines 105-116: one iteration of the cell loop
TranslateCell ==
  /\ pc = "cells"
  /\ LET column == columns[ci]
         rows == NonNullRows(df.data[column], 1)
     IN
     /\ vi <= Len(rows)
     /\ LET value == df.data[column][rows[vi]] IN
        \E outcome \in Outcomes :
          LET r == IF isna(value) \/ strip(PyStr(value)) = ""
                   THEN Passed(value)
                   ELSE translate_text(self, value, target_language, outcome)
              shown == UpdateProgress(processed_cells + 1, total_cells, progress_bar)
          IN
          IF r.raised \/ shown.raised
          THEN /\ pc' = "raised"
               /\ UNCHANGED <<vi, translated_values, calls, handled, warnings,
                              processed_cells, progress_bar>>
          ELSE /\ translated_values' = Append(translated_values, r.ret)
               /\ calls' = IF r.sent
                           THEN Append(calls, [kind |-> "cell", column |-> column,
                                               row |-> rows[vi],
                                               text |-> strip(PyStr(value)),
                                               outcome |-> outcome])
                           ELSE calls
               /\ handled' = Append(handled,
                                    [ci |-> ci, row |-> rows[vi], ret |-> r.ret,
                                     outcome |-> IF r.sent THEN outcome ELSE "none"])
               /\ warnings' = IF r.warned THEN warnings + 1 ELSE warnings
               /\ processed_cells' = processed_cells + 1
               /\ progress_bar' = shown.bar
               /\ vi' = vi + 1
               /\ UNCHANGED pc
  /\ UNCHANGED <<self, df, columns, target_language, translated_df, ci, total_cells,
                 column_translations, session_translations, result>>
  /\ UNCHANGED outside_translator

\* lines 118-124: write the translated values back, keep the originals
FinishColumn ==
  /\ pc = "cells"
  /\ LET column == columns[ci]
         written == SetColumn(translated_df, column,
                              AssignNonNull(df.data[column], translated_values),
                              df.dtypes[column])
         original_column_name == OriginalName(column)
     IN
     /\ vi > Len(NonNullRows(df.data[column], 1))
     /\ translated_df' = IF ~HasColumn(written, original_column_name)
                         THEN SetColumn(written, original_column_name, df.data[column],
                                        df.dtypes[column])
                         ELSE written
  /\ ci' = ci + 1
  /\ pc' = "columns"
  /\ UNCHANGED <<self, df, columns, target_language, vi, translated_values,
                 processed_cells, total_cells, progress_bar, column_translations,
                 session_translations, result, calls, handled, warnings>>
  /\ UNCHANGED outside_translator

\* lines 126-140: keep the label translations, finish the progress bar, return
Return ==
  /\ pc = "columns"
  /\ ci > Len(columns)
  /\ session_translations' =
       IF session_translations.has
       THEN [has |-> TRUE, map |-> DictUpdate(session_translations.map, column_translations)]
       ELSE [has |-> TRUE, map |-> column_translations]
  /\ progress_bar' = <<1, 1>>
  /\ result' = translated_df
  /\ pc' = "done"
  /\ UNCHANGED <<self, df, columns, target_language, translated_df, ci, vi,
                 translated_values, processed_cells, total_cells, column_translations,
                 calls, handled, warnings>>
  /\ UNCHANGED outside_translator

TNext == Call \/ NextColumn \/ TranslateCell \/ FinishColumn \/ Return

SpecTranslator == TInit /\ [][TNext]_vars

(***************************************************************************)
(* Properties of translate_dataframe / translate_text.                     *)
(***************************************************************************)
\* the input cell a handled entry is about
CellOf(h) == df.data[columns[h.ci]][h.row]

\* the stringified, trimmed form of a cell
Trimmed(v) == strip(PyStr(v))

\* the call returned a table built by the column loop
Returned == pc = "done" /\ columns # <<>>

\* the positions of columns that name a column of the input
SelectedExisting == {i \in 1..Len(columns) : HasColumn(df, columns[i])}

\* the last position at which a column is selected
LastSelection(i) == \A j \in (i + 1)..Len(columns) : columns[j] # columns[i]

StartsWith(s, prefix) == Len(s) >= Len(prefix) /\ SubSeq(s, 1, Len(prefix)) = prefix

\* C1: the returned table holds, for every selected column c of the input, a
\* column c_original whose cells are those of c in the input, row by row.
C1_OriginalColumnKept ==
  Returned =>
    \A i \in SelectedExisting :
      /\ HasColumn(result, columns[i] \o "_original")
      /\ result.data[columns[i] \o "_original"] = df.data[columns[i]]

\* C2 as stated: a cell is sent to the external service if and only if it is
\* present and its stringified, trimmed form has length >= 3.
C2_SentIffPresentAndLong ==
  \A j \in 1..Len(handled) :
    (handled[j].outcome # "none") <=> Len(Trimmed(CellOf(handled[j]))) >= 3

\* C2 amended: with the service available a present cell is sent if and only
\* if it is not falsy (not a zero number) and its stringified, trimmed form
\* has length >= 3, and without the service no cell is sent; absent, blank,
\* falsy and short cells are in the returned table as in the input.
C2_SentIffAvailableTruthyAndLong ==
  /\ \A j \in 1..Len(handled) :
       (handled[j].outcome # "none") <=>
          /\ self.GOOGLE_TRANSLATE_AVAILABLE /\ self.translator
          /\ ~PyNot(CellOf(handled[j]))
          /\ Len(Trimmed(CellOf(handled[j]))) >= 3
  /\ Len(calls) = Cardinality({j \in 1..Len(handled) : handled[j].outcome # "none"})
                  + Cardinality({k \in 1..Len(calls) : calls[k].kind = "label"})
  /\ Returned =>
       \A i \in SelectedExisting : \A r \in 1..NRows(df) :
         LET v == df.data[columns[i]][r] IN
         (isna(v) \/ PyNot(v) \/ Len(Trimmed(v)) < 3) => result.data[columns[i]][r] = v

\* a run with the service in which a cell of trimmed length 3 was sent and a
\* cell of trimmed length 2 was not
C2_Witness ==
  /\ Returned
  /\ self.translator
  /\ \E i, j \in 1..Len(handled) :
       /\ handled[i].outcome # "none" /\ Len(Trimmed(CellOf(handled[i]))) = 3
       /\ handled[j].outcome = "none" /\ Len(Trimmed(CellOf(handled[j]))) = 2
       /\ CellOf(handled[j]) # Str(Trimmed(CellOf(handled[j])))

\* C3: whenever translating a translatable value fails (library missing,
\* translator not initialised, or the call raises) the value returned is the
\* source text behind the marker "[Translation unavailable]".
C3_FailureIsMarked ==
  \A j \in 1..Len(handled) :
    LET v == CellOf(handled[j]) IN
    ( /\ ~PyNot(v)
      /\ Len(Trimmed(v)) >= 3
      /\ \/ ~self.GOOGLE_TRANSLATE_AVAILABLE
         \/ ~self.translator
         \/ handled[j].outcome = "raise" )
    => /\ handled[j].ret.k = "str"
       /\ StartsWith(handled[j].ret.s, "[Translation unavailable]")
       /\ Contains(handled[j].ret.s, Trimmed(v))

\* C4: a call of the service that raises does not end the run: no exception
\* leaves translate_dataframe, every non-null cell of every selected column
\* is processed, the table returned is whole, and a cell whose own call went
\* through holds its translation whatever happened to the other cells.
C4_FailureIsPerValue ==
  /\ pc # "raised"
  /\ Returned =>
       LET targets == {<<i, r>> \in SelectedExisting \X (1..NRows(df)) :
                         ~isna(df.data[columns[i]][r])}
       IN
       /\ Len(handled) = Cardinality(targets)
       /\ {<<handled[j].ci, handled[j].row>> : j \in 1..Len(handled)} = targets
       /\ \A c \in DOMAIN df.data : HasColumn(result, c) /\ Len(result.data[c]) = NRows(df)
       /\ \A j \in 1..Len(handled) :
            LET h == handled[j] IN
            /\ h.outcome = "ok" => h.ret = Str("es:" \o Trimmed(CellOf(h)))
            /\ h.outcome = "notext" => h.ret = Str(Trimmed(CellOf(h)))
            /\ (h.outcome = "none" /\ self.translator) => h.ret = CellOf(h)
            /\ LastSelection(h.ci) => result.data[columns[h.ci]][h.row] = h.ret

\* a finished run in which one call raised and a later call went through
C4_Witness ==
  /\ Returned
  /\ \E i, j \in 1..Len(handled) :
       i < j /\ handled[i].outcome = "raise" /\ handled[j].outcome = "ok"

(***************************************************************************)
(* Properties of the label mapping of translate_dataframe.                 *)
(***************************************************************************)
\* the label has a question mark of either kind or, in any mix of cases, one
\* of the keywords
IsQuestionLabel(l) ==
  \/ \E q \in 1..Len(l) : CharAt(l, q) \in {"?", "¿"}
  \/ \E kw \in LabelKeywords : Contains(lower(l), kw)

\* the selected names the column loop has been through
NamesSeen ==
  {columns[i] : i \in 1..(IF pc = "cells" THEN ci ELSE IF pc = "call" THEN 0 ELSE ci - 1)}

\* what translate_text may return for the label
LabelResults(l) ==
  {PyStr(translate_text(self, Str(l), target_language, o).ret) : o \in Outcomes}

\* C14: the labels with an entry in the mapping of this run are exactly the
\* selected names seen so far that are columns of the table and look like a
\* question; the entry is what translate_text returned for the label, every
\* external call for a label is for such a label, and the returned call has
\* put these entries, and no other, into the retained mapping.
C14_LabelEntryIffQuestion ==
  pc \in {"call", "columns", "cells", "done"} =>
    /\ DOMAIN column_translations =
         {l \in NamesSeen : HasColumn(df, l) /\ IsQuestionLabel(l)}
    /\ \A l \in DOMAIN column_translations : column_translations[l] \in LabelResults(l)
    /\ \A i \in 1..Len(calls) :
         calls[i].kind = "label" =>
           /\ calls[i].column \in DOMAIN column_translations
           /\ calls[i].text = strip(calls[i].column)
    /\ (pc = "done" /\ columns # <<>>) =>
         /\ session_translations.has
         /\ session_translations.map = column_translations

\* a call that selected MANGO, c and c? of a table that has them returned:
\* MANGO and c? have an entry, c has none
C14_Witness ==
  /\ pc = "done"
  /\ columns = <<"MANGO", "c", "c?">>
  /\ HasColumn(df, "c")
  /\ DOMAIN session_translations.map = {"MANGO", "c?"}
  /\ session_translations.map["MANGO"] = "es:MANGO"

(***************************************************************************)
(* Properties of the progress of translate_dataframe.                      *)
(***************************************************************************)
\* the cells of column c of the input that are not absent
NonNullCount(c) == Cardinality({r \in 1..Len(df.data[c]) : df.data[c][r] # NaN})

\* the target cells of the first i selected names
RECURSIVE TargetCells(_)
TargetCells(i) ==
  IF i = 0 THEN 0
  ELSE TargetCells(i - 1) + (IF HasColumn(df, columns[i]) THEN NonNullCount(columns[i]) ELSE 0)

\* the call is past its set-up and has not raised
Counting == pc \in {"columns", "cells", "done"} /\ columns # <<>>

\* counter, total and reported fraction of a call that is past its set-up
ProgressCounts ==
  Counting =>
    /\ total_cells = TargetCells(Len(columns))
    /\ processed_cells = TargetCells(ci - 1) + (IF pc = "cells" THEN vi - 1 ELSE 0)
    /\ processed_cells = Len(handled)
    /\ \A i \in 1..Len(handled) :
         /\ HasColumn(df, columns[handled[i].ci])
         /\ df.data[columns[handled[i].ci]][handled[i].row] # NaN
    /\ processed_cells <= total_cells
    /\ ((pc = "columns" /\ ci > Len(columns)) \/ pc = "done") => processed_cells = total_cells
    /\ progress_bar[2] > 0
    /\ 0 <= progress_bar[1]
    /\ progress_bar[1] <= progress_bar[2]

\* one step of a call: the counter goes up by one exactly when a cell was
\* handled, and the reported fraction does not go down
ProgressStep ==
  pc' # "call" =>
    /\ processed_cells' \in {processed_cells, processed_cells + 1}
    /\ (processed_cells' = processed_cells + 1) <=> (Len(handled') = Len(handled) + 1)
    /\ progress_bar'[1] * progress_bar[2] >= progress_bar[1] * progress_bar'[2]

\* C16 as stated: the counts are right, no call ends in a division error,
\* and every returned call, whatever its selection, has reported 1.0 last.
C16_ProgressEndsAtOne ==
  /\ [](ProgressCounts /\ pc # "raised" /\ (pc = "done" => progress_bar = <<1, 1>>))
  /\ [][ProgressStep]_vars

\* C16, amended: the counts are right, no call ends in a division error, and
\* every returned call with a selection that is not empty has reported 1.0
\* last; a call with an empty selection returns having set up and reported no
\* progress at all.
C16_ProgressOfNonEmptySelection ==
  /\ [](/\ ProgressCounts
        /\ pc # "raised"
        /\ (pc = "done" /\ columns # <<>>) => progress_bar = <<1, 1>>
        /\ (pc = "done" /\ columns = <<>>) =>
             (progress_bar = <<0, 1>> /\ total_cells = 0 /\ result = df))
  /\ [][ProgressStep]_vars

\* a call over two columns and a name that is no column returned after more
\* than two progress reports' worth of cells, one cell of the table absent
C16_Witness ==
  /\ pc = "done"
  /\ columns = <<"c", "missing", "d">>
  /\ processed_cells = total_cells
  /\ processed_cells = 2 * TallRows - 1
  /\ processed_cells >= 2 * ProgressEvery
  /\ progress_bar = <<1, 1>>

(***************************************************************************)
(* Properties of the table translate_dataframe returns.                    *)
(***************************************************************************)
\* the names selected, columns of the input or not
SelectedNames == {columns[i] : i \in 1..Len(columns)}

\* the columns of the input, as a set
InputColumns == {df.cols[i] : i \in 1..Len(df.cols)}

\* C22 on the returned table: it has the rows of the input, the columns of
\* the input first and in their order, after them only <col>_original
\* columns of selected columns of the input; a column that was not
\* selected has the cells of the input, and a selected column is absent
\* exactly where the input is.
FrameOfResult ==
  pc = "done" =>
    /\ NRows(result) = NRows(df)
    /\ Len(result.cols) >= Len(df.cols)
    /\ SubSeq(result.cols, 1, Len(df.cols)) = df.cols
    /\ \A i \in (Len(df.cols) + 1)..Len(result.cols) :
         \E c \in SelectedNames \cap InputColumns : result.cols[i] = OriginalName(c)
    /\ \A c \in InputColumns :
         /\ Len(result.data[c]) = Len(df.data[c])
         /\ c \notin SelectedNames => result.data[c] = df.data[c]
         /\ c \in SelectedNames =>
              \A r \in 1..Len(df.data[c]) : (result.data[c][r] = NaN) <=> (df.data[c][r] = NaN)
    /\ columns = <<>> => result = df

\* C22: translate_dataframe never changes the table or the selection it was
\* given, never ends in an exception, a selected name that is no column
\* of the table costs a warning and nothing else, and the table it returns
\* differs from the input only in the cells of the selected columns that
\* are not absent and in the added <col>_original columns.
C22_OnlySelectedCellsChange ==
  /\ [](FrameOfResult /\ pc # "raised")
  /\ [][pc' # "call" => (df' = df /\ columns' = columns)]_vars
  /\ [][(pc = "columns" /\ pc' = "columns" /\ ci' = ci + 1 /\ ~HasColumn(df, columns[ci]))
         => (translated_df' = translated_df /\ warnings' = warnings + 1
             /\ processed_cells' = processed_cells)]_vars

\* a call that selected a name that is no column and a column with an absent
\* cell and a translated cell returned; an unselected column came along
C22_Witness ==
  /\ pc = "done"
  /\ columns = <<"missing", "c">>
  /\ df.cols = <<"c", "c_original">>
  /\ \E r \in 1..NRows(df) : df.data["c"][r] = NaN
  /\ \E r \in 1..NRows(df) : result.data["c"][r] # df.data["c"][r]
  /\ result.data["c_original"] = df.data["c_original"]
  /\ warnings >= 1

(***************************************************************************)
(* Inputs of analyze_dataframe.                                            *)
(***************************************************************************)
\* analyze_dataframe calls of one analyzer
MaxRuns == 2
\* generate_report calls
MaxReports == 2

DateText == "2021-01-01"

\* the cells of a short column, by storage type
CellsOf(dtype) ==
  CASE dtype = "object" -> {NaN, Str(DateText), Str("12"), Str("abc")}
    [] dtype = "float64" -> {NaN, Float(3)}
    [] dtype = "datetime64[ns]" -> {NaN, Stamp(1)}

Dtypes == {"object", "float64", "datetime64[ns]"}

\* the short columns of n rows: storage type and cells
ShortColumns(n) ==
  UNION {{[dtype |-> d, cells |-> c] : c \in [1..n -> CellsOf(d)]} : d \in Dtypes}

OneColumn(name, col) ==
  Table(<<name>>, [x \in {name} |-> col.cells], [x \in {name} |-> col.dtype])

\* the text columns of n rows that hold one value throughout: one column per
\* type tag
UniformColumns(n) ==
  {[dtype |-> "object", cells |-> [r \in 1..n |-> v]] : v \in CellsOf("object")}

\* tables of at most two short columns, the second a uniform one; the column
\* order is not alphabetical
ShortTables ==
  {NoTable}
  \cup UNION {{OneColumn("b", col) : col \in ShortColumns(n)} : n \in 0..MaxShortRows}
  \cup UNION {{SetColumn(OneColumn("b", col1), "a", col2.cells, col2.dtype)
                 : col1 \in ShortColumns(n), col2 \in UniformColumns(n)}
              : n \in 0..MaxShortRows}

\* a text column of `lead` absent cells, then `dates` date texts, then filler
\* up to `sampled` non-null values, then `beyond` more values `last`
LongCells(lead, dates, sampled, filler, beyond, last) ==
  [q \in 1..(lead + sampled + beyond) |->
     IF q <= lead THEN NaN
     ELSE IF q <= lead + dates THEN Str(DateText)
     ELSE IF q <= lead + sampled THEN filler
     ELSE last]

\* one-column tables around the sample limit: just under, at, and past it,
\* with none, half, or one more than half of the sampled values date texts
LongTables ==
  {OneColumn("b", [dtype |-> "object",
                   cells |-> LongCells(lead, dates, sampled, filler, beyond, last)])
     : lead \in {0, 1},
       dates \in {0, SampleCap \div 2, SampleCap \div 2 + 1},
       sampled \in {SampleCap},
       filler \in {Str("12"), Str("abc")},
       beyond \in 0..MaxBeyond,
       last \in {Str(DateText), Str("12"), Str("abc")}}
  \cup
  {OneColumn("b", [dtype |-> "object",
                   cells |-> LongCells(0, dates, SampleCap - 1, Str("abc"), 0, NaN)])
     : dates \in {(SampleCap - 1) \div 2, (SampleCap - 1) \div 2 + 1}}

AnalyzerTables == ShortTables \cup LongTables

\* what df.memory_usage(deep=True).sum() may come to; the figure depends on
\* the pandas build, so any of these may go with any table
MemorySizes == {1023, 1280, 1048576}

\* sizes at and next to the two thresholds of _get_memory_usage, and sizes
\* whose quotient lies just under and just over a rounding step; tried with
\* the tables of at most one short column
ThresholdSizes ==
  {0, Kilo - 1, Kilo, Kilo + 1, 1075, 1076, Kilo * Kilo - 1, Kilo * Kilo,
   Kilo * Kilo + 52428, Kilo * Kilo + 52429, 3 * Kilo * Kilo}

AInit ==
  /\ a_df \in AnalyzerTables
  /\ memory_bytes \in
       IF a_df \in ShortTables /\ Len(a_df.cols) <= 1
       THEN MemorySizes \cup ThresholdSizes ELSE MemorySizes
  /\ a_pc = "start"
  /\ a_ci = 0
  /\ analysis = NoAnalysis
  /\ probes = <<>>
  /\ profile = NoProfile
  /\ reports = <<>>
  /\ runs = 0
  /\ TIdle
  /\ VIdle
  /\ PIdle

(***************************************************************************)
(* analyze_dataframe, one action per step of its loop, and generate_report.*)
(***************************************************************************)
\* lines 18-27
AnalyzeStart ==
  /\ a_pc = "start"
  /\ analysis' = NewAnalysis(a_df, memory_bytes)
  /\ probes' = <<>>
  /\ a_ci' = 1
  /\ a_pc' = "columns"
  /\ UNCHANGED <<a_df, memory_bytes, profile, reports, runs>>
  /\ UNCHANGED outside_analyzer

\* lines 34-39 with a closing else that files every other column as text
categorize_ElseText(dict, column, type) ==
  IF type = "numeric" THEN [dict EXCEPT !.numeric_columns = Append(@, column)]
  ELSE IF type = "datetime" THEN [dict EXCEPT !.date_columns = Append(@, column)]
  ELSE [dict EXCEPT !.text_columns = Append(@, column)]

\* lines 34-39: the if / elif / elif that files the column name by its type
categorize(dict, column, type) ==
  IF type = "text" THEN [dict EXCEPT !.text_columns = Append(@, column)]
  ELSE IF type = "numeric" THEN [dict EXCEPT !.numeric_columns = Append(@, column)]
  ELSE IF type = "datetime" THEN [dict EXCEPT !.date_columns = Append(@, column)]
  ELSE dict

\* lines 30-39: the profile of one column is stored and its name filed
analyze_one(dict, t, column) ==
  LET col_analysis == analyze_column(t.dtypes[column], t.data[column])
      stored ==
        [dict EXCEPT
           !.columns = DictSet(@, column, col_analysis),
           !.keys = IF column \in DOMAIN dict.columns THEN @ ELSE Append(@, column)]
  IN categorize(stored, column, col_analysis.type)

\* lines 29-39: the column loop from column i on
RECURSIVE analyze_columns(_, _, _)
analyze_columns(dict, t, i) ==
  IF i > Len(t.cols) THEN dict
  ELSE analyze_columns(analyze_one(dict, t, t.cols[i]), t, i + 1)

\* analyze_dataframe of a table that takes the given number of bytes
analyze_dataframe(t, bytes) == analyze_columns(NewAnalysis(t, bytes), t, 1)

\* lines 29-39: one iteration of the column loop
AnalyzeColumn ==
  /\ a_pc = "columns"
  /\ a_ci <= Len(a_df.cols)
  /\ LET column == a_df.cols[a_ci]
     IN
     /\ analysis' = analyze_one(analysis, a_df, column)
     /\ probes' = Append(probes,
                         [column |-> column,
                          ran |-> detect_column_type(a_df.dtypes[column],
                                                     a_df.data[column]).probes])
  /\ a_ci' = a_ci + 1
  /\ UNCHANGED <<a_df, memory_bytes, a_pc, profile, reports, runs>>
  /\ UNCHANGED outside_analyzer

\* line 41, and the caller keeping the result (app.py:183-184)
AnalyzeReturn ==
  /\ a_pc = "columns"
  /\ a_ci > Len(a_df.cols)
  /\ profile' = [set |-> TRUE, value |-> analysis]
  /\ runs' = runs + 1
  /\ a_pc' = "ready"
  /\ UNCHANGED <<a_df, memory_bytes, a_ci, analysis, probes, reports>>
  /\ UNCHANGED outside_analyzer

\* generate_report on the profile the caller holds, at any point after the
\* first analysis returned
GenerateReport ==
  /\ profile.set
  /\ Len(reports) < MaxReports
  /\ reports' = Append(reports, [of |-> profile.value,
                                 at |-> runs,
                                 text |-> generate_report(profile.value)])
  /\ UNCHANGED <<a_df, memory_bytes, a_pc, a_ci, analysis, probes, profile, runs>>
  /\ UNCHANGED outside_analyzer

\* the same analyzer is asked again, for the table it had (a page rerun)
Reanalyze ==
  /\ a_pc = "ready"
  /\ runs < MaxRuns
  /\ a_pc' = "start"
  /\ UNCHANGED <<a_df, memory_bytes, a_ci, analysis, probes, profile, reports, runs>>
  /\ UNCHANGED outside_analyzer

ANext == AnalyzeStart \/ AnalyzeColumn \/ AnalyzeReturn \/ GenerateReport \/ Reanalyze

SpecAnalyzer == AInit /\ [][ANext]_vars

(***************************************************************************)
(* Properties of _detect_column_type.                                      *)
(***************************************************************************)
\* the columns the analyze_dataframe call has been through
AnalysedColumns == {probes[i].column : i \in 1..Len(probes)}

\* the type tag stored for an analysed column
TagOf(c) == analysis.columns[c].type

\* the probes that ran for an analysed column
RanFor(c) == probes[CHOOSE i \in 1..Len(probes) : probes[i].column = c].ran

\* the values of the column that are not absent, in row order
Present(c) == SelectSeq(a_df.data[c], LAMBDA v : v # NaN)

AllAbsent(c) == \A r \in 1..Len(a_df.data[c]) : a_df.data[c][r] = NaN

NumericStorage(c) == a_df.dtypes[c] \in {"int64", "float64"}

DateStorage(c) == a_df.dtypes[c] = "datetime64[ns]"

\* the first min(100, n) values that are not absent
Sampled(c) ==
  LET n == Len(Present(c))
  IN SubSeq(Present(c), 1, IF n < SampleCap THEN n ELSE SampleCap)

\* the sampled values that match one of the three date patterns
DateShaped(c) ==
  {q \in 1..Len(Sampled(c)) : MatchesDatePattern(PyStr(Sampled(c)[q]))}

PassesDateTest(c) == 2 * Cardinality(DateShaped(c)) > Len(Sampled(c))

\* C5 as stated: every analysed column of numeric storage type is tagged
\* 'numeric', whatever it holds, a column of absent values only included.
C5_NumericStorageIsNumeric ==
  \A c \in AnalysedColumns : NumericStorage(c) => TagOf(c) = "numeric"

\* C5, amended: an analysed column of numeric storage type that holds at least
\* one value that is not absent is tagged 'numeric', without a date-pattern
\* test or a numeric parse, whatever else it holds; one that holds absent
\* values only (or no rows) is tagged 'empty'.
C5_NumericStorageWithValuesIsNumeric ==
  \A c \in AnalysedColumns :
    NumericStorage(c) =>
      IF AllAbsent(c)
      THEN TagOf(c) = "empty"
      ELSE TagOf(c) = "numeric" /\ RanFor(c) = <<>>

\* a numeric-storage column with an absent and a present value was tagged numeric
C5_Witness ==
  \E c \in AnalysedColumns :
    /\ NumericStorage(c)
    /\ Len(Present(c)) >= 1
    /\ Len(Present(c)) < Len(a_df.data[c])
    /\ TagOf(c) = "numeric"

\* C6: every analysed column whose values are all absent, of any storage type
\* and of any number of rows (none included), is tagged 'empty', and neither
\* the date-pattern test nor the numeric parse ran for it.
C6_AllAbsentIsEmpty ==
  \A c \in AnalysedColumns :
    AllAbsent(c) => TagOf(c) = "empty" /\ RanFor(c) = <<>>

\* a text-storage column of one or more rows, all absent, was tagged empty
C6_Witness ==
  \E c \in AnalysedColumns :
    /\ a_df.dtypes[c] = "object"
    /\ Len(a_df.data[c]) >= 1
    /\ AllAbsent(c)
    /\ TagOf(c) = "empty"
    /\ RanFor(c) = <<>>

\* C7: an analysed column that is not empty and whose storage type is neither
\* numeric nor date/time is tagged 'datetime' exactly when more than half of
\* its first min(100, n) non-null values match a date pattern; exactly half
\* is not enough, and values past the first 100 play no part.
C7_DatetimeIffMoreThanHalfOfSample ==
  \A c \in AnalysedColumns :
    (~AllAbsent(c) /\ ~NumericStorage(c) /\ ~DateStorage(c)) =>
      (TagOf(c) = "datetime" <=> PassesDateTest(c))

\* a column of more than 100 non-null values, exactly half of the sampled ones
\* dates and dates again past the sample, was not tagged datetime
C7_Witness ==
  \E c \in AnalysedColumns :
    /\ a_df.dtypes[c] = "object"
    /\ Len(Present(c)) > SampleCap
    /\ 2 * Cardinality(DateShaped(c)) = Len(Sampled(c))
    /\ \A q \in (SampleCap + 1)..Len(Present(c)) : MatchesDatePattern(PyStr(Present(c)[q]))
    /\ TagOf(c) # "datetime"

\* C8: an analysed column that is not empty, is of neither numeric nor
\* date/time storage type and does not pass the date-pattern test is tagged
\* 'numeric' if every non-null value of the whole column parses as a number,
\* and 'text' if any one of them does not.
C8_NumericIffAllParse ==
  \A c \in AnalysedColumns :
    (~AllAbsent(c) /\ ~NumericStorage(c) /\ ~DateStorage(c) /\ ~PassesDateTest(c)) =>
      IF \A q \in 1..Len(Present(c)) : ParsesAsNumber(Present(c)[q])
      THEN TagOf(c) = "numeric"
      ELSE TagOf(c) = "text"

\* a column whose first 100 non-null values all parse and whose later values
\* do not was tagged text
C8_Witness ==
  \E c \in AnalysedColumns :
    /\ a_df.dtypes[c] = "object"
    /\ Len(Present(c)) > SampleCap
    /\ \A q \in 1..SampleCap : ParsesAsNumber(Present(c)[q])
    /\ \E q \in (SampleCap + 1)..Len(Present(c)) : ~ParsesAsNumber(Present(c)[q])
    /\ TagOf(c) = "text"

(***************************************************************************)
(* Properties of analyze_dataframe and generate_report.                    *)
(***************************************************************************)
InList(list, name) == \E i \in 1..Len(list) : list[i] = name

NoRepeats(list) == \A i, j \in 1..Len(list) : list[i] = list[j] => i = j

\* the columns of the table that the profile tags so, in the table's order
TableColumnsTagged(p, tag) == SelectSeq(a_df.cols, LAMBDA c : p.columns[c].type = tag)

\* C9: in the profile analyze_dataframe returned, text_columns,
\* numeric_columns and date_columns are pairwise disjoint, a name is in one of
\* them exactly when the column's type tag is text / numeric / datetime, a
\* column tagged 'empty' is in none, and each list is in table column order.
C9_ListsPartitionByTag ==
  profile.set =>
    LET p == profile.value IN
    /\ DOMAIN p.columns = {a_df.cols[i] : i \in 1..Len(a_df.cols)}
    /\ \A c \in DOMAIN p.columns :
         /\ InList(p.text_columns, c) <=> p.columns[c].type = "text"
         /\ InList(p.numeric_columns, c) <=> p.columns[c].type = "numeric"
         /\ InList(p.date_columns, c) <=> p.columns[c].type = "datetime"
         /\ ~(InList(p.text_columns, c) /\ InList(p.numeric_columns, c))
         /\ ~(InList(p.text_columns, c) /\ InList(p.date_columns, c))
         /\ ~(InList(p.numeric_columns, c) /\ InList(p.date_columns, c))
         /\ p.columns[c].type = "empty" =>
              ~(InList(p.text_columns, c) \/ InList(p.numeric_columns, c)
                \/ InList(p.date_columns, c))
    /\ NoRepeats(p.text_columns) /\ NoRepeats(p.numeric_columns) /\ NoRepeats(p.date_columns)
    /\ p.text_columns = TableColumnsTagged(p, "text")
    /\ p.numeric_columns = TableColumnsTagged(p, "numeric")
    /\ p.date_columns = TableColumnsTagged(p, "datetime")

\* a returned profile of a two-column table: both columns in one list, in the
\* table's order, which is not the alphabetical one
C9_Witness ==
  /\ profile.set
  /\ Len(a_df.cols) = 2
  /\ profile.value.text_columns = a_df.cols
  /\ profile.value.numeric_columns = <<>>
  /\ profile.value.date_columns = <<>>

\* the "Column: <name>" lines of a report, in the order they come
ColumnLines(text) == SelectSeq(text, LAMBDA l : StartsWith(l.text, "\nColumn: "))

EndsWith(s, suffix) ==
  Len(s) >= Len(suffix) /\ SubSeq(s, Len(s) - Len(suffix) + 1, Len(s)) = suffix

AllDigits(s) == s # "" /\ \A q \in 1..Len(s) : IsDigit(CharAt(s, q))

\* the text before the unit
Figure_of(s, unit) == SubSeq(s, 1, Len(s) - Len(unit))

\* text is digits, a point and one digit, followed by the unit
OneDecimalIn(s, unit) ==
  /\ EndsWith(s, unit)
  /\ LET body == Figure_of(s, unit) IN
     /\ Len(body) >= 3
     /\ CharAt(body, Len(body) - 1) = "."
     /\ AllDigits(SubSeq(body, 1, Len(body) - 2))
     /\ IsDigit(CharAt(body, Len(body)))

\* the tenths a text of digits, a point and one digit stands for
TenthsIn(s, unit) ==
  LET body == Figure_of(s, unit) IN
  10 * DigitsValue(SubSeq(body, 1, Len(body) - 2))
  + DigitsValue(SubSeq(body, Len(body), Len(body)))

\* the text gives bytes / d to one decimal: it is within half a tenth of it
RendersIn(s, unit, bytes, d) ==
  /\ OneDecimalIn(s, unit)
  /\ LET t == TenthsIn(s, unit) IN
     /\ 2 * (10 * bytes - t * d) <= d
     /\ 2 * (t * d - 10 * bytes) <= d

\* C15: the memory estimate of a returned profile is the byte total followed
\* by " bytes" when the total is below 1024, the total over 1024 to one
\* decimal followed by " KB" when it is at least 1024 and below 1024 * 1024,
\* and the total over 1024 * 1024 to one decimal followed by " MB" from
\* 1024 * 1024 on.
C15_MemoryBy1024Thresholds ==
  profile.set =>
    LET s == profile.value.memory_usage IN
    /\ memory_bytes < 1024 => s = ToString(memory_bytes) \o " bytes"
    /\ (memory_bytes >= 1024 /\ memory_bytes < 1024 * 1024) =>
         RendersIn(s, " KB", memory_bytes, 1024)
    /\ memory_bytes >= 1024 * 1024 => RendersIn(s, " MB", memory_bytes, 1024 * 1024)

\* a profile of a table of exactly 1024 bytes was returned, in KB
C15_Witness ==
  /\ profile.set
  /\ memory_bytes = 1024
  /\ profile.value.memory_usage = "1.0 KB"

(***************************************************************************)
(* Properties of analyze_dataframe on tables without rows.                 *)
(***************************************************************************)
Ran(c, probe) == \E q \in 1..Len(RanFor(c)) : RanFor(c)[q] = probe

\* C17: no column is ever put to the date-pattern test with an empty sample
\* and no analysis ends in a division error; the analysis of a table of zero
\* rows returns a profile of all its columns, each tagged 'empty' without a
\* probe, with a memory estimate, 0 rows and a total null count of 0.
C17_ZeroRowsAnalysed ==
  /\ \A c \in AnalysedColumns :
       /\ TagOf(c) # "ZeroDivisionError"
       /\ Ran(c, "_contains_dates") => Len(Present(c)) > 0
  /\ (NRows(a_df) = 0 /\ a_pc = "ready") =>
       /\ profile.set
       /\ profile.value.keys = a_df.cols
       /\ \A c \in DOMAIN profile.value.columns :
            /\ profile.value.columns[c].type = "empty"
            /\ RanFor(c) = <<>>
            /\ profile.value.columns[c].null_count = 0
       /\ profile.value.total_rows = 0
       /\ profile.value.total_missing_values = 0
       /\ profile.value.memory_usage = get_memory_usage(memory_bytes)
       /\ profile.value.memory_usage # ""

\* a table of two columns and no rows, one of them of text storage, has been
\* analysed
C17_Witness ==
  /\ a_pc = "ready"
  /\ profile.set
  /\ NRows(a_df) = 0
  /\ Len(a_df.cols) = 2
  /\ \E c \in DOMAIN a_df.dtypes : a_df.dtypes[c] = "object"
  /\ profile.value.keys = a_df.cols

(***************************************************************************)
(* Properties of _analyze_text_column.                                     *)
(***************************************************************************)
\* the lengths of the stringified values of the column that are not absent
PresentLengths(c) == [q \in 1..Len(Present(c)) |-> Len(PyStr(Present(c)[q]))]

\* C18: for every analysed column tagged 'text', avg_length, min_length and
\* max_length are the mean, the least and the greatest of the lengths of its
\* stringified non-null values; absent cells add no length.
C18_LengthsOverNonNull ==
  \A c \in AnalysedColumns :
    TagOf(c) = "text" =>
      LET stats == analysis.columns[c].stats
          lens == PresentLengths(c)
      IN /\ stats.avg_length[1] * Len(lens) = SeqSum(lens) * stats.avg_length[2]
         /\ stats.min_length = SeqMin(lens)
         /\ stats.max_length = SeqMax(lens)

(***************************************************************************)
(* DataVisualizer (src/visualizer.py).  Every builder is a try body and an *)
(* except clause; the body ends in a figure or in an exception.            *)
(***************************************************************************)
\* visualizer.py:290  top_n: int = 10
TopN == 10

\* the try body returned a figure
Returns(fig) == [raised |-> FALSE, error |-> "", fig |-> fig]

\* an exception left the try body; error is str(e)
Raises(error) == [raised |-> TRUE, error |-> error, fig |-> NoFigure]

\* go.Figure() with add_annotation(text=...) and update_layout(title=...):
\* the figure of the "no data" branches
Annotated(text, title) == Figure("placeholder", text, title, <<>>)

\* the same, built by an except clause
ErrorFigure(text, title) == Figure("error", text, title, <<>>)

\* df[column] of a name that is no column raises KeyError; str(e) is the
\* quoted name, kept here without the quotes
KeyError(column) == Raises(column)

\* the plotting calls of a builder (px.histogram, add_vline, px.imshow, ...):
\* they give the chart of the plotted values or raise
Plot(plot, title, plotted) ==
  IF plot = "raise" THEN Raises("plotly error")
  ELSE Returns(Figure("chart", "", title, plotted))

PlotOutcomes == {"ok", "raise"}

\* pd.to_numeric(series, errors='coerce').notna(): the rows that hold a number
NumericRows(cells) == {r \in 1..Len(cells) : ParsesAsNumber(cells[r])}

\* pd.to_numeric(series, errors='coerce').dropna(): row -> number
NumbersAt(cells) == [r \in NumericRows(cells) |-> NumberOf(cells[r])]

\* pd.to_datetime(value, errors='coerce') is not NaT.  A Timestamp and a
\* number (read as nanoseconds) are dates, a text of date shape is one; what a
\* text of digits only becomes depends on the pandas build and on the values
\* before it (lenient says which), any other text is NaT.
ParsesAsDate(v, lenient) ==
  CASE v.k = "ts" -> TRUE
    [] v.k = "float" -> TRUE
    [] v.k = "str" -> MatchesDatePattern(v.s) \/ (lenient /\ IsNumberText(v.s))
    [] OTHER -> FALSE

\* create_histogram without its except clause
create_histogram_NoExcept(t, column, plot) ==
  LET numeric_data == NumbersAt(t.data[column])
      body ==
        IF ~HasColumn(t, column) THEN KeyError(column)
        ELSE IF DOMAIN numeric_data = {}
        THEN Returns(Annotated("No numeric data available for visualization",
                               "Histogram: " \o column))
        ELSE Plot(plot, "Distribution of " \o column, numeric_data)
  IN IF body.raised THEN Figure("raised", body.error, "", <<>>) ELSE body.fig

\* create_histogram dropping the whole column when one cell is no number
create_histogram_AllOrNothing(t, column, plot) ==
  LET numeric_data ==
        IF NumericRows(t.data[column]) = {r \in 1..Len(t.data[column]) : ~isna(t.data[column][r])}
        THEN NumbersAt(t.data[column]) ELSE <<>>
      body ==
        IF ~HasColumn(t, column) THEN KeyError(column)
        ELSE IF DOMAIN numeric_data = {}
        THEN Returns(Annotated("No numeric data available for visualization",
                               "Histogram: " \o column))
        ELSE Plot(plot, "Distribution of " \o column, numeric_data)
  IN IF body.raised
     THEN ErrorFigure("Error creating histogram: " \o body.error, "Histogram: " \o column)
     ELSE body.fig

\* create_histogram
create_histogram(t, column, plot) ==
  LET numeric_data == NumbersAt(t.data[column])
      body ==
        IF ~HasColumn(t, column) THEN KeyError(column)
        ELSE IF DOMAIN numeric_data = {}
        THEN Returns(Annotated("No numeric data available for visualization",
                               "Histogram: " \o column))
        ELSE Plot(plot, "Distribution of " \o column, numeric_data)
  IN IF body.raised
     THEN ErrorFigure("Error creating histogram: " \o body.error, "Histogram: " \o column)
     ELSE body.fig

\* df.select_dtypes(include=[np.number]).columns
select_numeric(t) == SelectSeq(t.cols, LAMBDA c : is_numeric_dtype(t.dtypes[c]))

\* create_correlation_heatmap asking for one numeric column only
create_correlation_heatmap_AtLeastOne(t, plot) ==
  LET numeric_df == select_numeric(t)
      body ==
        IF (NRows(t) = 0 \/ numeric_df = <<>>) \/ Len(numeric_df) < 1
        THEN Returns(Annotated("Need at least 2 numeric columns for correlation analysis",
                               "Correlation Matrix"))
        ELSE Plot(plot, "Correlation Matrix", numeric_df)
  IN IF body.raised
     THEN ErrorFigure("Error creating correlation heatmap: " \o body.error,
                      "Correlation Matrix")
     ELSE body.fig

\* create_correlation_heatmap; numeric_df.empty is "no rows or no columns".
\* The chart is the correlation matrix of the columns listed in plotted.
create_correlation_heatmap(t, plot) ==
  LET numeric_df == select_numeric(t)
      body ==
        IF (NRows(t) = 0 \/ numeric_df = <<>>) \/ Len(numeric_df) < 2
        THEN Returns(Annotated("Need at least 2 numeric columns for correlation analysis",
                               "Correlation Matrix"))
        ELSE Plot(plot, "Correlation Matrix", numeric_df)
  IN IF body.raised
     THEN ErrorFigure("Error creating correlation heatmap: " \o body.error,
                      "Correlation Matrix")
     ELSE body.fig

\* create_scatter_plot; color_col "" stands for None.  px.scatter raises when
\* it is told to colour by a name that is no column of plot_data.
create_scatter_plot(t, x_col, y_col, color_col, plot) ==
  LET used == {x_col, y_col}
              \cup (IF color_col # "" /\ HasColumn(t, color_col) THEN {color_col} ELSE {})
      rows == {r \in 1..NRows(t) : \A c \in used : ~isna(t.data[c][r])}
      title == "Scatter: " \o x_col \o " vs " \o y_col
      body ==
        IF ~HasColumn(t, x_col) THEN KeyError(x_col)
        ELSE IF ~HasColumn(t, y_col) THEN KeyError(y_col)
        ELSE IF rows = {}
        THEN Returns(Annotated("No valid data points for scatter plot", title))
        ELSE IF color_col # "" /\ ~HasColumn(t, color_col)
        THEN Raises("no column " \o color_col)
        ELSE Plot(plot, x_col \o " vs " \o y_col,
                  [r \in rows |-> <<t.data[x_col][r], t.data[y_col][r]>>])
  IN IF body.raised
     THEN ErrorFigure("Error creating scatter plot: " \o body.error, title)
     ELSE body.fig

\* create_box_plot; group_by "" stands for None
create_box_plot(t, column, group_by, plot) ==
  LET numeric_data == NumbersAt(t.data[column])
      body ==
        IF ~HasColumn(t, column) THEN KeyError(column)
        ELSE IF DOMAIN numeric_data = {}
        THEN Returns(Annotated("No valid numeric data for box plot",
                               "Box Plot: " \o column))
        ELSE IF group_by # "" /\ HasColumn(t, group_by)
        THEN Plot(plot, "Box Plot: " \o column \o " by " \o group_by, numeric_data)
        ELSE Plot(plot, "Box Plot: " \o column, numeric_data)
  IN IF body.raised
     THEN ErrorFigure("Error creating box plot: " \o body.error, "Box Plot: " \o column)
     ELSE body.fig

\* analyze_text_length: the lengths of the stringified cells, or an empty
\* series when the column cannot be read
analyze_text_length(t, column) ==
  IF ~HasColumn(t, column) THEN <<>> ELSE lengths(t.data[column])

\* create_text_length_chart
create_text_length_chart(lens, column_name, plot) ==
  LET title == "Text Length Analysis: " \o column_name
      body ==
        IF lens = <<>>
        THEN Returns(Annotated("No text data available for analysis", title))
        ELSE Plot(plot, "Text Length Distribution: " \o column_name, lens)
  IN IF body.raised
     THEN ErrorFigure("Error creating text length chart: " \o body.error, title)
     ELSE body.fig

\* series.value_counts(): value -> number of rows, absent cells left out
value_counts(cells) ==
  [v \in {cells[r] : r \in {x \in 1..Len(cells) : ~isna(cells[x])}} |->
     Cardinality({r \in 1..Len(cells) : cells[r] = v})]

\* .head(top_n) of a value_counts: top_n of the most frequent values
most_frequent(counts, top_n) ==
  IF Cardinality(DOMAIN counts) <= top_n THEN counts
  ELSE LET kept == CHOOSE S \in SUBSET DOMAIN counts :
                     /\ Cardinality(S) = top_n
                     /\ \A v \in S, w \in (DOMAIN counts) \ S : counts[v] >= counts[w]
       IN [v \in kept |-> counts[v]]

\* create_value_counts_chart
create_value_counts_chart(t, column, plot) ==
  LET counted == most_frequent(value_counts(t.data[column]), TopN)
      title == "Value Counts: " \o column
      body ==
        IF ~HasColumn(t, column) THEN KeyError(column)
        ELSE IF DOMAIN counted = {}
        THEN Returns(Annotated("No data available for value counts", title))
        ELSE Plot(plot,
                  "Top " \o ToString(Cardinality(DOMAIN counted)) \o " Values: " \o column,
                  counted)
  IN IF body.raised
     THEN ErrorFigure("Error creating value counts chart: " \o body.error, title)
     ELSE body.fig

\* create_time_series_plot of two different columns: the rows whose date
\* cell is a date and whose value cell is a number, row -> number (the sort
\* by date changes the order only)
create_time_series_plot(t, date_col, value_col, lenient, plot) ==
  LET rows == {r \in 1..NRows(t) :
                 /\ ParsesAsDate(t.data[date_col][r], lenient)
                 /\ ParsesAsNumber(t.data[value_col][r])}
      title == "Time Series: " \o value_col \o " over " \o date_col
      body ==
        IF ~HasColumn(t, date_col) THEN KeyError(date_col)
        ELSE IF ~HasColumn(t, value_col) THEN KeyError(value_col)
        ELSE IF rows = {}
        THEN Returns(Annotated("No valid time series data available", title))
        ELSE Plot(plot, title, [r \in rows |-> NumberOf(t.data[value_col][r])])
  IN IF body.raised
     THEN ErrorFigure("Error creating time series plot: " \o body.error, title)
     ELSE body.fig

(***************************************************************************)
(* Inputs and calls of the chart builders.                                 *)
(***************************************************************************)
\* rows of a table handed to a chart builder
MaxChartRows == 2

PlainText == "abcd"

\* the columns a charted table is made of: a text column "a", and a column
\* "b" (and "c") of numbers or of text
ChartColumns(name, n) ==
  IF name = "a"
  THEN {[dtype |-> "object", cells |-> c]
          : c \in [1..n -> {NaN, Str(DateText), Str("12"), Str(PlainText)}]}
  ELSE {[dtype |-> "float64", cells |-> c] : c \in [1..n -> {NaN, Float(3)}]}
       \cup (IF name = "b"
             THEN {[dtype |-> "object", cells |-> c]
                     : c \in [1..n -> {NaN, Str("12"), Str(PlainText)}]}
             ELSE {})

TwoColumns(name1, col1, name2, col2) ==
  SetColumn(OneColumn(name1, col1), name2, col2.cells, col2.dtype)

ChartTables ==
  UNION {
    {OneColumn("a", col) : col \in ChartColumns("a", n)}
    \cup {OneColumn("b", col) : col \in ChartColumns("b", n)}
    \cup {TwoColumns("a", col1, "b", col2)
            : col1 \in ChartColumns("a", n), col2 \in ChartColumns("b", n)}
    \cup {TwoColumns("b", col1, "c", col2)
            : col1 \in ChartColumns("c", n), col2 \in ChartColumns("c", n)}
    : n \in 0..MaxChartRows }

\* the names a caller may ask for: columns of the table or not
ColumnChoices == {"a", "b", "zz"}

\* an optional column argument; "" is None
OptionalChoices == {"", "b", "zz"}

CallOf(builder, args, plot) == [builder |-> builder, args |-> args, plot |-> plot]

\* a caller holds a table and has one chart built of it; the builders keep
\* no state, so a second call would start from the same place
VInit ==
  /\ v_df \in ChartTables
  /\ v_call = NoCall
  /\ v_fig = NoFigure
  /\ TIdle
  /\ AIdle
  /\ PIdle

Histogram ==
  /\ v_call = NoCall
  /\ \E column \in ColumnChoices, plot \in PlotOutcomes :
       /\ v_call' = CallOf("create_histogram", <<column>>, plot)
       /\ v_fig' = create_histogram(v_df, column, plot)
  /\ UNCHANGED v_df
  /\ UNCHANGED outside_visualizer

CorrelationHeatmap ==
  /\ v_call = NoCall
  /\ \E plot \in PlotOutcomes :
       /\ v_call' = CallOf("create_correlation_heatmap", <<>>, plot)
       /\ v_fig' = create_correlation_heatmap(v_df, plot)
  /\ UNCHANGED v_df
  /\ UNCHANGED outside_visualizer

ScatterPlot ==
  /\ v_call = NoCall
  /\ \E x_col \in ColumnChoices, y_col \in ColumnChoices,
        color_col \in OptionalChoices, plot \in PlotOutcomes :
       /\ v_call' = CallOf("create_scatter_plot", <<x_col, y_col, color_col>>, plot)
       /\ v_fig' = create_scatter_plot(v_df, x_col, y_col, color_col, plot)
  /\ UNCHANGED v_df
  /\ UNCHANGED outside_visualizer

BoxPlot ==
  /\ v_call = NoCall
  /\ \E column \in ColumnChoices, group_by \in OptionalChoices, plot \in PlotOutcomes :
       /\ v_call' = CallOf("create_box_plot", <<column, group_by>>, plot)
       /\ v_fig' = create_box_plot(v_df, column, group_by, plot)
  /\ UNCHANGED v_df
  /\ UNCHANGED outside_visualizer

\* analyze_text_length and the chart of what it returned
TextLengthChart ==
  /\ v_call = NoCall
  /\ \E column \in ColumnChoices, plot \in PlotOutcomes :
       /\ v_call' = CallOf("create_text_length_chart", <<column>>, plot)
       /\ v_fig' = create_text_length_chart(analyze_text_length(v_df, column), column, plot)
  /\ UNCHANGED v_df
  /\ UNCHANGED outside_visualizer

ValueCountsChart ==
  /\ v_call = NoCall
  /\ \E column \in ColumnChoices, plot \in PlotOutcomes :
       /\ v_call' = CallOf("create_value_counts_chart", <<column>>, plot)
       /\ v_fig' = create_value_counts_chart(v_df, column, plot)
  /\ UNCHANGED v_df
  /\ UNCHANGED outside_visualizer

TimeSeriesPlot ==
  /\ v_call = NoCall
  /\ \E date_col \in ColumnChoices, value_col \in ColumnChoices,
        lenient \in BOOLEAN, plot \in PlotOutcomes :
       /\ date_col # value_col
       /\ v_call' = CallOf("create_time_series_plot", <<date_col, value_col, lenient>>, plot)
       /\ v_fig' = create_time_series_plot(v_df, date_col, value_col, lenient, plot)
  /\ UNCHANGED v_df
  /\ UNCHANGED outside_visualizer

VNext ==
  \/ Histogram
  \/ CorrelationHeatmap
  \/ ScatterPlot
  \/ BoxPlot
  \/ TextLengthChart
  \/ ValueCountsChart
  \/ TimeSeriesPlot

SpecVisualizer == VInit /\ [][VNext]_vars

(***************************************************************************)
(* Properties of the chart builders.                                       *)
(***************************************************************************)
Built(builder) == v_call.builder = builder

\* the columns the called builder has to read
RequiredColumns ==
  CASE Built("create_scatter_plot") -> {v_call.args[1], v_call.args[2]}
    [] Built("create_time_series_plot") -> {v_call.args[1], v_call.args[2]}
    [] Built("create_correlation_heatmap") -> {}
    [] OTHER -> {v_call.args[1]}

ValidSelection == \A c \in RequiredColumns : HasColumn(v_df, c)

ChartRows == 1..NRows(v_df)

\* the cell of a column in a row holds a number, as a float or as text
HoldsNumber(c, r) == ParsesAsNumber(v_df.data[c][r])

NumericTyped == {c \in DOMAIN v_df.dtypes : v_df.dtypes[c] \in {"int64", "float64"}}

\* the rows the called builder can use, for a valid selection
UsableRows ==
  CASE Built("create_histogram") \/ Built("create_box_plot") ->
         {r \in ChartRows : HoldsNumber(v_call.args[1], r)}
    [] Built("create_scatter_plot") ->
         {r \in ChartRows :
            \A c \in RequiredColumns
                     \cup (IF HasColumn(v_df, v_call.args[3]) THEN {v_call.args[3]} ELSE {}) :
              v_df.data[c][r] # NaN}
    [] Built("create_text_length_chart") -> ChartRows
    [] Built("create_value_counts_chart") ->
         {r \in ChartRows : v_df.data[v_call.args[1]][r] # NaN}
    [] Built("create_time_series_plot") ->
         {r \in ChartRows :
            /\ ParsesAsDate(v_df.data[v_call.args[1]][r], v_call.args[3])
            /\ HoldsNumber(v_call.args[2], r)}
    [] OTHER -> IF Cardinality(NumericTyped) < 2 THEN {} ELSE ChartRows

C12_HeatmapNeedsTwoNumericColumns ==
  Built("create_correlation_heatmap") =>
    /\ Cardinality(NumericTyped) < 2 =>
         /\ v_fig.kind = "placeholder"
         /\ v_fig.message = "Need at least 2 numeric columns for correlation analysis"
    /\ v_fig.kind = "chart" =>
         /\ Cardinality(NumericTyped) >= 2
         /\ {v_fig.plotted[i] : i \in 1..Len(v_fig.plotted)} = NumericTyped

\* the heatmap of a table with rows and exactly one numeric-typed column is
\* the placeholder
C12_Witness ==
  /\ Built("create_correlation_heatmap")
  /\ Cardinality(NumericTyped) = 1
  /\ ChartRows # {}
  /\ v_fig.kind = "placeholder"

MaxPageRuns == 3

DecodeFailed == "Could not decode the CSV file. Please ensure it's properly encoded."

ReadFailed == "Error reading CSV file"

Loaded(encoding, table) == [ok |-> TRUE, encoding |-> encoding, table |-> table, error |-> ""]

NotLoaded(error) == [ok |-> FALSE, encoding |-> "", table |-> NoTable, error |-> error]

\* lines 137-174 with cp1252 tried ahead of latin-1 and iso-8859-1
load_csv_Cp1252First(file) ==
  IF file.utf8.kind = "ok" THEN Loaded("utf-8", file.utf8.table)
  ELSE IF file.utf8.kind # "UnicodeDecodeError" THEN NotLoaded(ReadFailed)
  ELSE IF file.cp1252.kind = "ok" THEN Loaded("cp1252", file.cp1252.table)
  ELSE IF file.latin1.kind = "ok" THEN Loaded("latin-1", file.latin1.table)
  ELSE NotLoaded(DecodeFailed)

\* lines 137-174: the table read from the uploaded file, or the error shown.
\* Only a UnicodeDecodeError of the UTF-8 read leads to the other encodings;
\* latin-1 and iso-8859-1 name one codec, so the second fails where the first
\* did; whatever an attempt of the loop raises is swallowed (line 152).
load_csv(file) ==
  IF file.utf8.kind = "ok" THEN Loaded("utf-8", file.utf8.table)
  ELSE IF file.utf8.kind # "UnicodeDecodeError" THEN NotLoaded(ReadFailed)
  ELSE IF file.latin1.kind = "ok" THEN Loaded("latin-1", file.latin1.table)
  ELSE IF file.cp1252.kind = "ok" THEN Loaded("cp1252", file.cp1252.table)
  ELSE NotLoaded(DecodeFailed)

\* the three substrings that make a column the date of a card
TimestampWords == {"timestamp", "date", "time"}

IsTimestampName(col_name) == \E w \in TimestampWords : Contains(lower(col_name), w)

\* the keywords of the card view's question test.  The source has two more,
\* the UTF-8 bytes of two accented Spanish keywords read as Mac Roman text;
\* they hold characters that no label of this model has and are left out.
DisplayKeywords ==
  {"question", "pregunta", "texto", "text", "translated", "mango", "estas", "algo",
   "favor", "por favor", "como"}

\* lines 274-281: the question test of the card view.  Its second literal is
\* the two characters the source file holds there, not an inverted question
\* mark.
DisplayLooksLikeQuestion(col_name) ==
  \/ Contains(col_name, "?")
  \/ Contains(col_name, "¬ø")
  \/ \E kw \in DisplayKeywords : Contains(lower(col_name), kw)

UpperChar(c) ==
  IF \E i \in 1..Len(LowerChars) : CharAt(LowerChars, i) = c
  THEN CharAt(UpperChars, CHOOSE i \in 1..Len(LowerChars) : CharAt(LowerChars, i) = c)
  ELSE c

IsLetter(c) == c # "" /\ (Contains(LowerChars, c) \/ Contains(UpperChars, c))

\* col_name.replace('_', ' ').title(): a letter after a letter in lower case,
\* any other letter in upper case
RECURSIVE title_from(_, _)
title_from(s, i) ==
  IF i > Len(s) THEN ""
  ELSE LET c == IF CharAt(s, i) = "_" THEN " " ELSE CharAt(s, i)
           after_letter == i > 1 /\ IsLetter(CharAt(s, i - 1))
       IN (IF after_letter THEN LowerChar(c) ELSE UpperChar(c)) \o title_from(s, i + 1)

\* lines 286-289 and 300-303
value_display(value) ==
  IF isna(value) \/ strip(PyStr(value)) = "" THEN "No response" ELSE PyStr(value)

\* lines 253-256: the columns of a card, the date columns first
ordered_cols(t) ==
  LET all_cols == SelectSeq(t.cols, LAMBDA c : ~EndsWith(c, "_original"))
  IN SelectSeq(all_cols, IsTimestampName)
     \o SelectSeq(all_cols, LAMBDA c : ~IsTimestampName(c))

\* lines 262-305: one column of one card
card_entry(col_name, value, column_labels) ==
  IF IsTimestampName(col_name)
  THEN [column |-> col_name, role |-> "date", label |-> "Response Submitted",
        shown |-> PyStr(value)]
  ELSE IF DisplayLooksLikeQuestion(col_name)
  THEN [column |-> col_name, role |-> "question",
        label |-> IF col_name \in DOMAIN column_labels
                  THEN column_labels[col_name] ELSE col_name,
        shown |-> value_display(value)]
  ELSE [column |-> col_name, role |-> "plain", label |-> title_from(col_name, 1),
        shown |-> value_display(value)]

\* lines 247-307: one card per row of the translated table
card_view(t, column_labels) ==
  LET cols == ordered_cols(t) IN
  [r \in 1..NRows(t) |->
     [i \in 1..Len(cols) |-> card_entry(cols[i], t.data[cols[i]][r], column_labels)]]

\* lines 182-184 with the profile kept from an earlier run when there is one
analysis_step_KeepStored(stored, t, bytes) ==
  IF stored.set THEN stored.value ELSE analyze_dataframe(t, bytes)

\* lines 182-184: the profile the run stores, whatever the session held
analysis_step(stored, t, bytes) == analyze_dataframe(t, bytes)

\* the probes of an analyze_dataframe call over the whole table
ProbesOf(t) ==
  [i \in 1..Len(t.cols) |->
     [column |-> t.cols[i],
      ran |-> detect_column_type(t.dtypes[t.cols[i]], t.data[t.cols[i]]).probes]]

(***************************************************************************)
(* Inputs of the page.                                                     *)
(***************************************************************************)
\* a text column c and a numeric column n
TextAndNumber ==
  Table(<<"c", "n">>,
        [x \in {"c", "n"} |-> IF x = "c" THEN <<Str(" abc ")>> ELSE <<Float(3)>>],
        [x \in {"c", "n"} |-> IF x = "c" THEN "object" ELSE "float64"])

\* a numeric column only: nothing to translate
NumberOnly == Table(<<"n">>, [x \in {"n"} |-> <<Float(3)>>], AllOf({"n"}, "float64"))

\* two text columns: the card view takes both labels for questions, the
\* translator the second only
TwoQuestions ==
  Table(<<"Question", "Texto?">>,
        [x \in {"Question", "Texto?"} |->
           IF x = "Question" THEN <<Str("uno dos")>> ELSE <<Str(" ab ")>>],
        AllOf({"Question", "Texto?"}, "object"))

\* another text column
OtherText == Table(<<"d">>, [x \in {"d"} |-> <<Str("uno dos")>>], AllOf({"d"}, "object"))

Undecodable == ReadResult("UnicodeDecodeError", NoTable)

Unparsable == ReadResult("error", NoTable)

\* files that read as UTF-8, files that do not decode as UTF-8 and read as
\* latin-1 (and differently as cp1252), as cp1252 only, or not at all, and a
\* file whose UTF-8 read fails for another reason than its encoding
AppFiles ==
  {File(ReadResult("ok", TextAndNumber), ReadResult("ok", OtherText), ReadResult("ok", OtherText)),
   File(ReadResult("ok", NumberOnly), ReadResult("ok", OtherText), ReadResult("ok", OtherText)),
   File(ReadResult("ok", TwoQuestions), ReadResult("ok", OtherText), ReadResult("ok", OtherText)),
   File(Undecodable, ReadResult("ok", OtherText), ReadResult("ok", TextAndNumber)),
   File(Undecodable, Unparsable, ReadResult("ok", TextAndNumber)),
   File(Undecodable, Unparsable, Unparsable),
   File(Unparsable, ReadResult("ok", TextAndNumber), ReadResult("ok", TextAndNumber))}

\* what the memory of a table of the page may come to
AppMemorySizes == {1023, 1280}

\* the TextTranslator() of line 228: with the service, or without
AppTranslators == {TextTranslator_init(TRUE, TRUE), TextTranslator_init(FALSE, FALSE)}

\* a session before its first run
PInit ==
  /\ TIdle
  /\ AIdle
  /\ VIdle
  /\ data = NoData
  /\ analysis_results = NoProfile
  /\ translated_data = NoTranslated
  /\ uploaded_file = NoFile
  /\ clicked = FALSE
  /\ run_pc = "idle"
  /\ text_columns = NoOffer
  /\ report = NoReport
  /\ errors = <<>>
  /\ loaded_with = ""
  /\ page_runs = 0
  /\ cards = <<>>

(***************************************************************************)
(* One run of main, one action per section of the page.                    *)
(***************************************************************************)
\* a user event starts a run: the uploader holds another file or none, or
\* the Translate button the last run showed was pressed.  Lines 118-126:
\* the session attributes that are missing are set.
Visit ==
  /\ run_pc = "idle"
  /\ page_runs < MaxPageRuns
  /\ \/ /\ uploaded_file' \in AppFiles \cup {NoFile}
        /\ clicked' = FALSE
     \/ /\ text_columns.set
        /\ text_columns.names # <<>>
        /\ errors = <<>>
        /\ clicked' = TRUE
        /\ UNCHANGED uploaded_file
  /\ session_translations' =
       IF session_translations.has THEN session_translations
       ELSE [has |-> TRUE, map |-> EmptyDict]
  /\ errors' = <<>>
  /\ loaded_with' = ""
  /\ page_runs' = page_runs + 1
  /\ cards' = <<>>
  /\ run_pc' = "load"
  /\ UNCHANGED <<data, analysis_results, translated_data, text_columns, report>>
  /\ UNCHANGED <<self, df, columns, target_language, pc, translated_df, ci, vi,
                 translated_values, processed_cells, total_cells, progress_bar,
                 column_translations, result, calls, handled, warnings>>
  /\ UNCHANGED <<avars, zvars>>

\* lines 136-174: the file the uploader holds is read and its table stored,
\* or the error is shown and the run returns
Load ==
  /\ run_pc = "load"
  /\ IF ~uploaded_file.present
     THEN /\ run_pc' = "analysis"
          /\ UNCHANGED <<data, errors, loaded_with>>
     ELSE LET read == load_csv(uploaded_file) IN
          IF read.ok
          THEN /\ data' = [set |-> TRUE, value |-> read.table]
               /\ loaded_with' = read.encoding
               /\ run_pc' = "analysis"
               /\ UNCHANGED errors
          ELSE /\ errors' = Append(errors, read.error)
               /\ run_pc' = "idle"
               /\ UNCHANGED <<data, loaded_with>>
  /\ UNCHANGED <<analysis_results, translated_data, uploaded_file, clicked,
                 text_columns, report, page_runs, cards>>
  /\ UNCHANGED <<tvars, avars, zvars>>

\* lines 176-214: without a table the run ends; with one, it is analysed, the
\* profile stored and the text columns offered for translation
Analyze ==
  /\ run_pc = "analysis"
  /\ IF ~data.set
     THEN /\ run_pc' = "idle"
          /\ UNCHANGED <<analysis_results, text_columns, avars>>
     ELSE \E bytes \in AppMemorySizes :
            LET analysed == analysis_step(analysis_results, data.value, bytes) IN
            /\ a_df' = data.value
            /\ memory_bytes' = bytes
            /\ a_pc' = "ready"
            /\ a_ci' = Len(data.value.cols) + 1
            /\ analysis' = analysed
            /\ probes' = ProbesOf(data.value)
            /\ profile' = [set |-> TRUE, value |-> analysed]
            /\ runs' = runs + 1
            /\ UNCHANGED reports
            /\ analysis_results' = [set |-> TRUE, value |-> analysed]
            /\ text_columns' = [set |-> TRUE, of |-> data.value,
                                names |-> analysed.text_columns]
            /\ run_pc' = "translation"
  /\ UNCHANGED <<data, translated_data, uploaded_file, clicked, report, errors,
                 loaded_with, page_runs, cards>>
  /\ UNCHANGED <<tvars, zvars>>

\* lines 215-237: the button is there when there are text columns; pressed,
\* it has a new TextTranslator translate a copy of the table
Translation ==
  /\ run_pc = "translation"
  /\ IF text_columns.names # <<>> /\ clicked
     THEN /\ self' \in AppTranslators
          /\ df' = data.value
          /\ columns' = text_columns.names
          /\ target_language' = "es"
          /\ pc' = "call"
          /\ translated_df' = NoTable
          /\ ci' = 0
          /\ vi' = 0
          /\ translated_values' = <<>>
          /\ processed_cells' = 0
          /\ total_cells' = 0
          /\ progress_bar' = <<0, 1>>
          /\ column_translations' = EmptyDict
          /\ result' = NoTable
          /\ calls' = <<>>
          /\ handled' = <<>>
          /\ warnings' = 0
          /\ UNCHANGED session_translations
          /\ run_pc' = "translating"
     ELSE /\ run_pc' = "display"
          /\ UNCHANGED tvars
  /\ UNCHANGED <<data, analysis_results, translated_data, uploaded_file, clicked,
                 text_columns, report, errors, loaded_with, page_runs, cards>>
  /\ UNCHANGED <<avars, zvars>>

\* line 234: translate_dataframe returned and its table is stored
StoreTranslated ==
  /\ run_pc = "translating"
  /\ pc = "done"
  /\ translated_data' = [set |-> TRUE, from |-> data.value, value |-> result]
  /\ run_pc' = "display"
  /\ UNCHANGED <<data, analysis_results, uploaded_file, clicked, text_columns, report,
                 errors, loaded_with, page_runs, cards>>
  /\ UNCHANGED <<tvars, avars, zvars>>

\* lines 239-328: with a translated table in the session its rows are shown
\* as cards; without one the table is previewed
Display ==
  /\ run_pc = "display"
  /\ cards' = IF translated_data.set
              THEN card_view(translated_data.value, session_translations.map)
              ELSE <<>>
  /\ run_pc' = "download"
  /\ UNCHANGED <<data, analysis_results, translated_data, uploaded_file, clicked,
                 text_columns, report, errors, loaded_with, page_runs>>
  /\ UNCHANGED <<tvars, avars, zvars>>

\* lines 331-354: the translated table, when there is one, and the report of
\* the stored profile are offered for download, and the run ends
Download ==
  /\ run_pc = "download"
  /\ report' = IF analysis_results.set
               THEN [set |-> TRUE, of |-> data.value,
                     text |-> generate_report(analysis_results.value)]
               ELSE report
  /\ run_pc' = "idle"
  /\ UNCHANGED <<data, analysis_results, translated_data, uploaded_file, clicked,
                 text_columns, errors, loaded_with, page_runs, cards>>
  /\ UNCHANGED <<tvars, avars, zvars>>

PNext ==
  \/ Visit
  \/ Load
  \/ Analyze
  \/ Translation
  \/ StoreTranslated
  \/ Display
  \/ Download
  \/ TNext

SpecApp == PInit /\ [][PNext]_vars

(***************************************************************************)
(* Properties of the file load.                                            *)
(***************************************************************************)
\* the reads of a file in the order of lines 143 and 148
Attempts(file) ==
  << [encoding |-> "utf-8", read |-> file.utf8],
     [encoding |-> "latin-1", read |-> file.latin1],
     [encoding |-> "iso-8859-1", read |-> file.latin1],
     [encoding |-> "cp1252", read |-> file.cp1252] >>

\* attempt i is made: the first always, a later one when UTF-8 did not
\* decode and no attempt since has given a table
Made(file, i) ==
  \/ i = 1
  \/ /\ file.utf8.kind = "UnicodeDecodeError"
     /\ \A j \in 2..(i - 1) : Attempts(file)[j].read.kind # "ok"

\* the attempts that are made and give a table: the first to succeed, if any
Succeeding(file) ==
  {i \in 1..Len(Attempts(file)) : Made(file, i) /\ Attempts(file)[i].read.kind = "ok"}

\* C13: the load of a file stores the table of the first attempt, in the
\* order utf-8, latin-1, iso-8859-1, cp1252, that succeeds, and the run goes
\* on; when no attempt succeeds, or the UTF-8 read fails for another reason
\* than the encoding, one error is shown, the run ends there, and the
\* session keeps the table, the profile and the translation it had.
C13_FirstDecodingThatSucceeds ==
  [][(run_pc = "load" /\ uploaded_file.present) =>
       IF Succeeding(uploaded_file) # {}
       THEN LET first == Attempts(uploaded_file)[CHOOSE i \in Succeeding(uploaded_file) : TRUE]
            IN /\ data' = [set |-> TRUE, value |-> first.read.table]
               /\ loaded_with' = first.encoding
               /\ errors' = errors
               /\ run_pc' = "analysis"
       ELSE /\ data' = data
            /\ analysis_results' = analysis_results
            /\ translated_data' = translated_data
            /\ Len(errors') = Len(errors) + 1
            /\ run_pc' = "idle"]_vars

\* a file that decodes in no encoding was put in after a table had been
\* stored: the error is shown, the run is over, the table is still there
C13_Witness ==
  /\ run_pc = "idle"
  /\ errors = <<DecodeFailed>>
  /\ uploaded_file.present
  /\ Succeeding(uploaded_file) = {}
  /\ data.set
  /\ data.value = TextAndNumber

(***************************************************************************)
(* Properties of the profile the page shows.                               *)
(***************************************************************************)
\* the columns of a table that are tagged 'text', in column order
TextNamesOf(t) ==
  SelectSeq(t.cols, LAMBDA c : analyze_column(t.dtypes[c], t.data[c]).type = "text")

\* the profile of the table the session holds, at the size found for it
CurrentProfile == analyze_dataframe(data.value, memory_bytes)

\* C20: once a run is past its analysis step, and between runs, the stored
\* profile and the text columns offered are those of the table the session
\* holds; between runs the report offered is the report of that profile.
C20_ProfileOfCurrentTable ==
  data.set =>
    /\ run_pc \in {"translation", "translating", "display", "download", "idle"} =>
         /\ analysis_results.set
         /\ analysis_results.value = CurrentProfile
         /\ analysis_results.value.total_rows = NRows(data.value)
         /\ analysis_results.value.keys = data.value.cols
         /\ text_columns.set
         /\ text_columns.of = data.value
         /\ text_columns.names = TextNamesOf(data.value)
    /\ run_pc = "translating" => (df = data.value /\ columns = TextNamesOf(data.value))
    /\ run_pc = "idle" =>
         /\ report.set
         /\ report.of = data.value
         /\ report.text = generate_report(CurrentProfile)

\* a third run analysed a table other than the one the first run loaded and
\* the second translated
C20_Witness ==
  /\ run_pc = "idle"
  /\ page_runs = 3
  /\ errors = <<>>
  /\ translated_data.set
  /\ translated_data.from = TextAndNumber
  /\ data.value = OtherText
  /\ text_columns.names = <<"d">>
  /\ report.of = OtherText

(***************************************************************************)
(* Properties of the translated table the page shows.                      *)
(***************************************************************************)
\* the run under way has rendered the cards, or the page is at rest
CardsShown == run_pc \in {"download", "idle"} /\ errors = <<>>

\* the columns of the table the session holds
HeldColumns == {data.value.cols[i] : i \in 1..Len(data.value.cols)}

\* C21: whenever the page shows a translated table, that table was made
\* from the table the session holds, the cards are those of a translation of
\* that table, and the label mapping has entries for its columns only.
C21_TranslationOfCurrentTable ==
  (CardsShown /\ data.set /\ translated_data.set) =>
    /\ translated_data.from = data.value
    /\ NRows(translated_data.value) = NRows(data.value)
    /\ DOMAIN session_translations.map \subseteq HeldColumns

(***************************************************************************)
(* Properties of the cards.                                                *)
(***************************************************************************)
\* the entries of all cards shown
CardEntries == {cards[r][i] : r \in DOMAIN cards, i \in 1..Len(ordered_cols(translated_data.value))}

\* the column was translated: the table holds its <col>_original
IsTranslatedColumn(c) == HasColumn(translated_data.value, OriginalName(c))

\* C23: every translated column a card shows as a Question has an entry in
\* the label mapping, and the question text shown is that entry.
C23_QuestionCardsShowTranslatedLabel ==
  (CardsShown /\ translated_data.set) =>
    \A e \in CardEntries :
      (e.role = "question" /\ IsTranslatedColumn(e.column)) =>
        /\ e.column \in DOMAIN session_translations.map
        /\ e.label = session_translations.map[e.column]

(***************************************************************************)
(* The components side by side, and the page.                              *)
(***************************************************************************)
Init == TInit \/ AInit \/ VInit \/ PInit

Next == TNext \/ ANext \/ VNext \/ PNext

Spec == Init /\ [][Next]_vars

====
